---- MODULE Spec2Model ----
(***************************************************************************)
(* Health_Gaurd backend: the credential cipher (utils/encryption.js), the  *)
(* Redis cache client (config/redis.js), the cache middleware              *)
(* (middleware/cache.js) and the routes that use them (routes/auth.js,     *)
(* routes/health.js, routes/meals.js, routes/ai.js).                       *)
(*                                                                         *)
(* Strings are sequences of one-character strings, buffers are sequences   *)
(* of bytes (0..255), base64 text is a string like any other.              *)
(***************************************************************************)
EXTENDS Integers, Sequences, FiniteSets, TLC

VARIABLES
    \* ---- credential cipher (PasswordEncryption) ----
    cphase,        \* "idle" | "hashed" | "compared"
    cpw,           \* the password last given to hashPassword
    csalt,         \* the salt hashPassword drew
    civ,           \* the IV hashPassword drew
    cct,           \* the ciphertext hashPassword produced
    cstored,       \* the stored credential string (base64 text) or Undefined
    ccand,         \* the candidate last given to comparePassword
    cres,          \* the outcome of the last comparePassword: [threw, value]
    \* ---- cache client (RedisClient) ----
    redisUrl,      \* REDIS_URL is set and REDIS_DISABLED is not 'true'
    started,       \* connect() has been called
    client,        \* this.client is not null
    isConnected,   \* this.isConnected
    store,         \* the Redis server: key -> [text, exp]
    now,           \* the clock, in seconds
    lastCall,      \* the last direct call of an operation and its outcome
    puts,          \* the puts in force: key -> the arguments of the put
    \* ---- server process and routes ----
    alive,         \* the server process is running
    db,            \* the users collection: user id -> [registered, healthMetrics]
    req,           \* the request between its middleware and its handler
    resp,          \* how the last request was answered
    hist,          \* per user id: the last login and the last logout
    \* ---- calls in flight and direct calls of methods ----
    calls,         \* setCaloricResult calls between their awaits, and their batch
    probe,         \* the last direct call of a pure method: [op, arg, ret]
    lastEvent      \* the last thing that happened to the connection

cipherVars == <<cphase, cpw, csalt, civ, cct, cstored, ccand, cres>>

clientVars == <<redisUrl, started, client, isConnected, store, now, lastCall, puts>>

routeVars == <<alive, db, req, resp, hist>>

callVars == <<calls, probe, lastEvent>>

vars == <<cipherVars, clientVars, routeVars, callVars>>

-----------------------------------------------------------------------------
(* Generic helpers *)

Min(a, b) == IF a < b THEN a ELSE b
Max(a, b) == IF a > b THEN a ELSE b

\* A JavaScript value that is a string, or one that is not (undefined, null).
StrVal(s) == [isString |-> TRUE, s |-> s]
Undefined == [isString |-> FALSE, s |-> <<>>]

\* Text that is no password: the bytes a wrong key decrypts to.
Garbage == <<"garbage">>

\* The outcome of a JavaScript evaluation: a value, or a thrown exception.
Ok(v) == [threw |-> FALSE, value |-> v]
Throw(e) == [threw |-> TRUE, value |-> e]

\* Buffer.prototype.slice(start, end): both ends are clamped to the length.
BufSlice(buf, start, end) ==
    SubSeq(buf, Min(start, Len(buf)) + 1, Min(end, Len(buf)))

\* Printable ASCII, in code order from 32 (space) to 126 (~); the double
\* quote, the backslash and the backtick are written by name.
Ascii == <<" ", "!", "QUOTE", "#", "$", "%", "&", "'", "(", ")", "*", "+", ",", "-", ".", "/",
           "0", "1", "2", "3", "4", "5", "6", "7", "8", "9", ":", ";", "<", "=", ">", "?",
           "@", "A", "B", "C", "D", "E", "F", "G", "H", "I", "J", "K", "L", "M", "N", "O",
           "P", "Q", "R", "S", "T", "U", "V", "W", "X", "Y", "Z", "[", "BACKSLASH", "]", "^", "_",
           "BACKTICK", "a", "b", "c", "d", "e", "f", "g", "h", "i", "j", "k", "l", "m", "n", "o",
           "p", "q", "r", "s", "t", "u", "v", "w", "x", "y", "z", "{", "|", "}", "~">>

\* The UTF-16 code unit of a character (ASCII here), as String.prototype.sort
\* and Buffer's 'utf8' encoding see it.
CharCode(c) == 31 + (CHOOSE i \in 1..Len(Ascii) : Ascii[i] = c)

\* Buffer.from(str, 'utf8') for an ASCII string, and its inverse.
Utf8Encode(str) == [i \in 1..Len(str) |-> CharCode(str[i])]
Utf8Decode(bytes) == [i \in 1..Len(bytes) |-> Ascii[bytes[i] - 31]]

-----------------------------------------------------------------------------
(* Credential cipher: utils/encryption.js *)

ivLength == 16
saltLength == 32
\* 'aes-256-cbc': the cipher block is as long as the IV.
AesBlock == ivLength

\* The base64 alphabet, in sextet order from 0 to 63.
Base64Alphabet ==
    <<"A", "B", "C", "D", "E", "F", "G", "H", "I", "J", "K", "L", "M", "N", "O", "P",
      "Q", "R", "S", "T", "U", "V", "W", "X", "Y", "Z", "a", "b", "c", "d", "e", "f",
      "g", "h", "i", "j", "k", "l", "m", "n", "o", "p", "q", "r", "s", "t", "u", "v",
      "w", "x", "y", "z", "0", "1", "2", "3", "4", "5", "6", "7", "8", "9", "+", "/">>

\* The sextet a character stands for when decoding, -1 for a character that
\* stands for none.  Node also reads the URL-safe '-' and '_'.
Unbase64(c) ==
    IF \E i \in 1..Len(Base64Alphabet) : Base64Alphabet[i] = c
    THEN (CHOOSE i \in 1..Len(Base64Alphabet) : Base64Alphabet[i] = c) - 1
    ELSE IF c = "-" THEN Len(Base64Alphabet) - 2
    ELSE IF c = "_" THEN Len(Base64Alphabet) - 1
    ELSE -1

\* Buffer.prototype.toString('base64'): three bytes make four characters,
\* the last group is padded with '='.
Base64Encode(bytes) ==
    LET n == Len(bytes)
        At(i) == IF i <= n THEN bytes[i] ELSE 0
        Char(g, k) ==
            LET b1 == At(3 * g + 1)
                b2 == At(3 * g + 2)
                b3 == At(3 * g + 3)
            IN  CASE k = 1 -> Base64Alphabet[b1 \div 4 + 1]
                  [] k = 2 -> Base64Alphabet[(b1 % 4) * 16 + b2 \div 16 + 1]
                  [] k = 3 -> IF 3 * g + 2 > n THEN "="
                              ELSE Base64Alphabet[(b2 % 16) * 4 + b3 \div 64 + 1]
                  [] k = 4 -> IF 3 * g + 3 > n THEN "="
                              ELSE Base64Alphabet[(b3 % 64) + 1]
    IN  [c \in 1..(4 * ((n + 2) \div 3)) |-> Char((c - 1) \div 4, ((c - 1) % 4) + 1)]

\* The sextets Node's decoder reads: characters outside the alphabet are
\* skipped, decoding stops at the first '='.
Base64Sextets(text) ==
    LET pads == { i \in 1..Len(text) : text[i] = "=" }
        stop == IF pads = {} THEN Len(text) + 1
                ELSE CHOOSE i \in pads : \A j \in pads : i <= j
        InAlphabet(c) == Unbase64(c) >= 0
        kept == SelectSeq(SubSeq(text, 1, stop - 1), InAlphabet)
    IN  [i \in 1..Len(kept) |-> Unbase64(kept[i])]

\* Four sextets make three bytes; a last group of two or three sextets makes
\* one or two bytes, a lone sextet none.
Base64Bytes(sx) ==
    LET n == Len(sx)
        rest == n % 4
        nbytes == (n \div 4) * 3 + (IF rest = 0 THEN 0 ELSE rest - 1)
        Byte(g, k) ==
            CASE k = 1 -> sx[4 * g + 1] * 4 + sx[4 * g + 2] \div 16
              [] k = 2 -> (sx[4 * g + 2] % 16) * 16 + sx[4 * g + 3] \div 4
              [] k = 3 -> (sx[4 * g + 3] % 4) * 64 + sx[4 * g + 4]
    IN  [b \in 1..nbytes |-> Byte((b - 1) \div 3, ((b - 1) % 3) + 1)]

\* Buffer.from(str, 'base64'): a TypeError for a value that is no string,
\* otherwise the lenient decoding (it never rejects a string).
BufferFromBase64(stored) ==
    IF ~stored.isString THEN Throw("TypeError")
    ELSE Ok(Base64Bytes(Base64Sextets(stored.s)))

\* The passwords and the random seeds the cipher is exercised with.
PasswordSeq == << <<"a", "b">>, <<"a", "c">>, <<>>,
                 <<"T", "e", "s", "t", "P", "a", "s", "s", "w", "o", "r", "d", "1", "2", "3", "!">> >>
Passwords == { PasswordSeq[n] : n \in 1..Len(PasswordSeq) }
Seeds == {1, 2}

\* crypto.randomBytes(n) for the random outcome `seed`: n bytes that differ
\* from position to position.
randomBytes(n, seed) == [i \in 1..n |-> (seed * 97 + i * 13) % 256]

generateSalt(seed) == randomBytes(saltLength, seed)

\* crypto.pbkdf2Sync(password, salt, iterations, keyLength, 'sha512'), as a
\* symbolic function: deterministic, and injective in (password, salt).  It
\* accepts a salt of any length; it rejects only a password that is no string.
deriveKey(password, salt) ==
    IF ~password.isString THEN Throw("TypeError")
    ELSE Ok([pw |-> password.s, salt |-> salt])

\* The position of a password in PasswordSeq.
PwIndex(p) == CHOOSE n \in 1..Len(PasswordSeq) : PasswordSeq[n] = p

\* The random outcome that produced a salt or an IV.
SeedOf(n, bytes) == CHOOSE s \in Seeds : randomBytes(n, s) = bytes

\* The (key, iv, plaintext) triples the cipher has a ciphertext for.
InCodebook(key, iv, pt) ==
    /\ key.pw \in Passwords
    /\ \E s \in Seeds : generateSalt(s) = key.salt
    /\ \E s \in Seeds : randomBytes(ivLength, s) = iv
    /\ pt \in Passwords

\* cipher.update(pt) + cipher.final() of crypto.createCipheriv('aes-256-cbc'),
\* as an ideal cipher: the ciphertext is PKCS#7-padded to whole blocks and
\* names its (key, iv, plaintext) injectively.
SymEncrypt(key, iv, pt) ==
    LET len == AesBlock * (Len(pt) \div AesBlock + 1)
        head == <<PwIndex(key.pw), SeedOf(saltLength, key.salt),
                  SeedOf(ivLength, iv), PwIndex(pt)>>
    IN  [i \in 1..len |-> IF i <= 4 THEN head[i] ELSE (i * 7) % 256]

\* decipher.update(ct) + decipher.final(): the plaintext under the key and
\* IV that made the ciphertext; under any other key, IV or ciphertext the
\* padding check fails ("bad decrypt") or, when `unpads`, random bytes
\* come out.
SymDecrypt(key, iv, ct, unpads) ==
    IF Len(ct) = 0 \/ Len(ct) % AesBlock # 0
    THEN Throw("wrong final block length")
    ELSE IF \E pt \in Passwords :
                InCodebook(key, iv, pt) /\ SymEncrypt(key, iv, pt) = ct
    THEN Ok(CHOOSE pt \in Passwords :
                InCodebook(key, iv, pt) /\ SymEncrypt(key, iv, pt) = ct)
    ELSE IF unpads THEN Ok(Garbage)
    ELSE Throw("bad decrypt")

\* crypto.createCipheriv / createDecipheriv: the IV must be one block long.
createCipheriv(key, iv) ==
    IF Len(iv) # ivLength THEN Throw("Invalid initialization vector")
    ELSE Ok([key |-> key, iv |-> iv])

\* hashPassword with the salt and the IV of one earlier draw used again.
hashPassword_parts_reused(password, saltSeed, ivSeed) ==
    LET salt == generateSalt(1)
        iv == randomBytes(ivLength, 1)
        key == deriveKey(password, salt)
    IN  IF key.threw THEN key
        ELSE LET cipher == createCipheriv(key.value, iv)
             IN  IF cipher.threw THEN cipher
                 ELSE Ok([salt |-> salt, iv |-> iv,
                          encrypted |-> SymEncrypt(key.value, iv, password.s)])

\* hashPassword, up to the bytes of the envelope: salt ++ iv ++ ciphertext.
hashPassword_parts(password, saltSeed, ivSeed) ==
    LET salt == generateSalt(saltSeed)
        iv == randomBytes(ivLength, ivSeed)
        key == deriveKey(password, salt)
    IN  IF key.threw THEN key
        ELSE LET cipher == createCipheriv(key.value, iv)
             IN  IF cipher.threw THEN cipher
                 ELSE Ok([salt |-> salt, iv |-> iv,
                          encrypted |-> SymEncrypt(key.value, iv, password.s)])

\* hashPassword(password): base64 of salt ++ iv ++ ciphertext; any failure
\* is rethrown as 'Password encryption failed'.
hashPassword(password, saltSeed, ivSeed) ==
    LET r == hashPassword_parts(password, saltSeed, ivSeed)
    IN  IF r.threw THEN Throw("Password encryption failed")
        ELSE Ok(StrVal(Base64Encode(r.value.salt \o r.value.iv \o r.value.encrypted)))

\* The slices cut with the IV taken to start where the salt starts.
SplitEnvelope_ivAtZero(combined) ==
    [salt |-> BufSlice(combined, 0, saltLength),
     iv |-> BufSlice(combined, 0, ivLength),
     encrypted |-> BufSlice(combined, saltLength + ivLength, Len(combined))]

\* The three slices comparePassword cuts from the decoded envelope.
SplitEnvelope(combined) ==
    [salt |-> BufSlice(combined, 0, saltLength),
     iv |-> BufSlice(combined, saltLength, saltLength + ivLength),
     encrypted |-> BufSlice(combined, saltLength + ivLength, Len(combined))]

\* The body of comparePassword's try block.
comparePassword_try(candidatePassword, hashedPassword, unpads) ==
    LET combined == BufferFromBase64(hashedPassword)
    IN  IF combined.threw THEN combined
        ELSE
        LET parts == SplitEnvelope(combined.value)
            key == deriveKey(candidatePassword, parts.salt)
        IN  IF key.threw THEN key
            ELSE
            LET decipher == createCipheriv(key.value, parts.iv)
            IN  IF decipher.threw THEN decipher
                ELSE
                LET decrypted == SymDecrypt(key.value, parts.iv, parts.encrypted, unpads)
                IN  IF decrypted.threw THEN decrypted
                    ELSE Ok(decrypted.value = candidatePassword.s)

\* comparePassword without its catch clause.
comparePassword_nocatch(candidatePassword, hashedPassword, unpads) ==
    comparePassword_try(candidatePassword, hashedPassword, unpads)

\* comparePassword(candidatePassword, hashedPassword): the catch clause
\* turns every exception of the body into the value false.
comparePassword(candidatePassword, hashedPassword, unpads) ==
    LET r == comparePassword_try(candidatePassword, hashedPassword, unpads)
    IN  IF r.threw THEN Ok(FALSE) ELSE r

-----------------------------------------------------------------------------
(* JavaScript strings (sequences of characters) *)

\* Does sub occur in s at position i (1-based)?
StartsAt(s, sub, i) ==
    /\ i + Len(sub) - 1 <= Len(s)
    /\ SubSeq(s, i, i + Len(sub) - 1) = sub

\* String.prototype.indexOf, 1-based; 0 when sub does not occur.
indexOf(s, sub) ==
    LET hits == { i \in 1..(Len(s) + 1) : StartsAt(s, sub, i) }
    IN  IF hits = {} THEN 0 ELSE CHOOSE i \in hits : \A j \in hits : i <= j

\* String.prototype.includes
includes(s, sub) == indexOf(s, sub) # 0

\* String.prototype.replace with a string pattern: the first occurrence only.
replace(s, pat, rep) ==
    LET i == indexOf(s, pat)
    IN  IF i = 0 THEN s
        ELSE SubSeq(s, 1, i - 1) \o rep \o SubSeq(s, i + Len(pat), Len(s))

\* The order Array.prototype.sort() uses by default: code units, left to
\* right, a proper prefix first.
StrLess(a, b) ==
    LET diff == { i \in 1..Min(Len(a), Len(b)) : a[i] # b[i] }
    IN  IF diff = {} THEN Len(a) < Len(b)
        ELSE LET i == CHOOSE d \in diff : \A e \in diff : d <= e
             IN  CharCode(a[i]) < CharCode(b[i])

\* Array.prototype.sort() of an array of strings.
RECURSIVE sort(_)
sort(a) ==
    IF a = <<>> THEN <<>>
    ELSE LET rest == sort(Tail(a))
             x == Head(a)
             k == Cardinality({ i \in 1..Len(rest) : StrLess(rest[i], x) })
         IN  SubSeq(rest, 1, k) \o <<x>> \o SubSeq(rest, k + 1, Len(rest))

\* Array.prototype.join of an array of strings.
RECURSIVE join(_, _)
join(a, sep) ==
    IF a = <<>> THEN <<>>
    ELSE IF Len(a) = 1 THEN a[1]
    ELSE a[1] \o sep \o join(Tail(a), sep)

DecimalDigits == <<"0", "1", "2", "3", "4", "5", "6", "7", "8", "9">>

\* String(n) of a natural number.
RECURSIVE NatToString(_)
NatToString(n) ==
    IF n < 10 THEN <<DecimalDigits[n + 1]>>
    ELSE NatToString(n \div 10) \o <<DecimalDigits[(n % 10) + 1]>>

-----------------------------------------------------------------------------
(* JavaScript values.  Every value is a record of one shape: the type tag  *)
(* t and, according to the tag, a boolean b, a number n, characters s, the *)
(* properties o of an object or the elements a of an array.  Strings come  *)
(* in four kinds: "str" (the characters s), "iso" (the ISO text of the     *)
(* instant n), "jwt" (a signed token for the user id s, issued at n) and   *)
(* "json" (the JSON text of the value o.json).                             *)

NoFields == [k \in {} |-> 0]

Js(t, b, n, s, o, a) == [t |-> t, b |-> b, n |-> n, s |-> s, o |-> o, a |-> a]

JsUndefined == Js("undefined", FALSE, 0, <<>>, NoFields, <<>>)
JsNull == Js("null", FALSE, 0, <<>>, NoFields, <<>>)
JsBool(b) == Js("bool", b, 0, <<>>, NoFields, <<>>)
JsNum(n) == Js("num", FALSE, n, <<>>, NoFields, <<>>)
JsStr(s) == Js("str", FALSE, 0, s, NoFields, <<>>)
JsDate(at) == Js("date", FALSE, at, <<>>, NoFields, <<>>)
JsObj(fields) == Js("obj", FALSE, 0, <<>>, fields, <<>>)
JsArr(elems) == Js("arr", FALSE, 0, <<>>, NoFields, elems)

\* The JSON text of the value x, and the value a JSON text stands for.
JsonText(x) == Js("json", FALSE, 0, <<>>, [json |-> x], <<>>)
TextValue(text) == text.o.json

\* a === b for primitives, and structural equality for objects and arrays
\* (what comparing their JSON texts gives).
JsEq(a, b) == a = b

\* Date.prototype.toISOString
toISOString(at) == Js("iso", FALSE, at, <<>>, NoFields, <<>>)

\* An object with no property.
EmptyFields == NoFields

IsString(x) == x.t \in {"str", "iso", "jwt", "json"}

\* ToBoolean
Truthy(x) ==
    CASE x.t \in {"undefined", "null"} -> FALSE
      [] x.t = "bool" -> x.b
      [] x.t \in {"num", "dec"} -> x.n # 0
      [] x.t = "str" -> x.s # <<>>
      [] OTHER -> TRUE

\* { ...a, ...b }: the properties of b are added to those of a and replace
\* the ones of the same name; spreading null or undefined adds nothing.
Spread(x) == IF x.t = "obj" THEN x.o ELSE EmptyFields
Merge(a, b) ==
    [k \in (DOMAIN a) \cup (DOMAIN b) |-> IF k \in DOMAIN b THEN b[k] ELSE a[k]]

\* The value JSON text stands for: properties that are undefined are left
\* out, undefined array elements become null, a Date becomes its ISO string.
RECURSIVE toJSON(_)
toJSON(x) ==
    CASE x.t = "date" -> toISOString(x.n)
      [] x.t = "obj" ->
            LET keep == { k \in DOMAIN x.o : x.o[k].t # "undefined" }
            IN  JsObj([k \in keep |-> toJSON(x.o[k])])
      [] x.t = "arr" ->
            JsArr([i \in 1..Len(x.a) |->
                     IF x.a[i].t = "undefined" THEN JsNull ELSE toJSON(x.a[i])])
      [] OTHER -> x

\* JSON.stringify: undefined for undefined, else the JSON text.
JSONstringify(x) ==
    IF x.t = "undefined" THEN JsUndefined ELSE JsonText(toJSON(x))

\* JSON.parse of a string: a token, an ISO date or a key is no JSON text.
JSONparse(text) ==
    IF text.t = "json" THEN Ok(TextValue(text)) ELSE Throw("SyntaxError")

\* obj.name, undefined when obj has no such property or is no object.
Prop(x, name) ==
    IF x.t = "obj" /\ name \in DOMAIN x.o THEN x.o[name] ELSE JsUndefined

-----------------------------------------------------------------------------
(* The Redis server as the node-redis client sees it.  The store maps a    *)
(* key to [text, exp]: the string stored and the instant it expires.       *)

EmptyStore == NoFields

\* Entries whose time to live has run out are gone.
Purge(st, t) == [k \in { j \in DOMAIN st : st[j].exp > t } |-> st[k]]

\* GET: the string, or null.
RedisGet(st, key) == IF key \in DOMAIN st THEN st[key].text ELSE JsNull

\* SETEX: the value must be a string and the time to live positive.
RedisSetEx(st, t, key, ttl, value) ==
    IF ~IsString(value) THEN Throw("TypeError")
    ELSE IF ttl <= 0 THEN Throw("ERR invalid expire time")
    ELSE Ok([k \in (DOMAIN st) \cup {key} |->
               IF k = key THEN [text |-> value, exp |-> t + ttl] ELSE st[k]])

\* DEL
RedisDel(st, key) == [k \in (DOMAIN st) \ {key} |-> st[k]]

\* EXISTS: 1 or 0.
RedisExists(st, key) == IF key \in DOMAIN st THEN 1 ELSE 0

\* KEYS prefix*: the keys that start with the prefix.
RedisKeys(st, prefix) == { k \in DOMAIN st : StartsAt(k, prefix, 1) }

-----------------------------------------------------------------------------
(* RedisClient (config/redis.js).  An operation is an operator of the      *)
(* client state c = [client, isConnected, store, now] and of the outcome   *)
(* of each backend command it may issue ("ok" or "fail": the promise       *)
(* rejects); it yields [threw, ret, store, cmds]: whether an exception     *)
(* left the call, the value returned, the store afterwards and the number  *)
(* of backend commands issued.                                             *)

Outcomes == {"ok", "fail"}

Ret(v, st, n) == [threw |-> FALSE, ret |-> v, store |-> st, cmds |-> n]
Thrown(st, n) == [threw |-> TRUE, ret |-> JsUndefined, store |-> st, cmds |-> n]

\* try { ... } catch (error) { return empty }
Caught_rethrow(r, empty) == r
Caught(r, empty) ==
    IF r.threw THEN [r EXCEPT !.threw = FALSE, !.ret = empty] ELSE r

\* !this.isConnected || !this.client
Closed(c) == ~c.isConnected \/ ~c.client

\* data ? JSON.parse(data) : null
ParseOrNull_raw(data) ==
    IF ~Truthy(data) THEN Ok(JsNull)
    ELSE IF data.t = "json" THEN JSONparse(data) ELSE Ok(data)
ParseOrNull(data) == IF Truthy(data) THEN JSONparse(data) ELSE Ok(JsNull)

get_try(c, key, oc) ==
    IF Closed(c) THEN Ret(JsNull, c.store, 0)
    ELSE IF oc = "fail" THEN Thrown(c.store, 1)
    ELSE LET p == ParseOrNull(RedisGet(c.store, key))
         IN  IF p.threw THEN Thrown(c.store, 1) ELSE Ret(p.value, c.store, 1)

get(c, key, oc) == Caught(get_try(c, key, oc), JsNull)

\* One SETEX issued by an operation that then returns true.
SetExThenTrue_milliseconds(c, key, ttl, text, oc, before) ==
    IF oc = "fail" THEN Thrown(c.store, before + 1)
    ELSE LET w == RedisSetEx(c.store, c.now, key, ttl * 1000, text)
         IN  IF w.threw THEN Thrown(c.store, before)
             ELSE Ret(JsBool(TRUE), w.value, before + 1)
SetExThenTrue(c, key, ttl, text, oc, before) ==
    IF oc = "fail" THEN Thrown(c.store, before + 1)
    ELSE LET w == RedisSetEx(c.store, c.now, key, ttl, text)
         IN  IF w.threw THEN Thrown(c.store, before)
             ELSE Ret(JsBool(TRUE), w.value, before + 1)

DefaultExpire == 3600

set_try(c, key, data, expireInSeconds, oc) ==
    IF Closed(c) THEN Ret(JsBool(FALSE), c.store, 0)
    ELSE SetExThenTrue(c, key, expireInSeconds, JSONstringify(data), oc, 0)

set(c, key, data, expireInSeconds, oc) ==
    Caught(set_try(c, key, data, expireInSeconds, oc), JsBool(FALSE))

del_try(c, key, oc) ==
    IF Closed(c) THEN Ret(JsBool(FALSE), c.store, 0)
    ELSE IF oc = "fail" THEN Thrown(c.store, 1)
    ELSE Ret(JsBool(TRUE), RedisDel(c.store, key), 1)

del(c, key, oc) == Caught(del_try(c, key, oc), JsBool(FALSE))

exists_try(c, key, oc) ==
    IF Closed(c) THEN Ret(JsBool(FALSE), c.store, 0)
    ELSE IF oc = "fail" THEN Thrown(c.store, 1)
    ELSE Ret(JsBool(RedisExists(c.store, key) = 1), c.store, 1)

exists(c, key, oc) == Caught(exists_try(c, key, oc), JsBool(FALSE))

\* keys is an array of key strings, or undefined (keys.length then throws).
mget_try(c, keys, oc) ==
    IF Closed(c) THEN Ret(JsArr(<<>>), c.store, 0)
    ELSE IF keys.t # "arr" THEN Thrown(c.store, 0)
    ELSE IF Len(keys.a) = 0 THEN Ret(JsArr(<<>>), c.store, 0)
    ELSE IF oc = "fail" THEN Thrown(c.store, 1)
    ELSE LET parsed == [i \in 1..Len(keys.a) |->
                          ParseOrNull(RedisGet(c.store, keys.a[i].s))]
         IN  IF \E i \in 1..Len(keys.a) : parsed[i].threw
             THEN Thrown(c.store, 1)
             ELSE Ret(JsArr([i \in 1..Len(keys.a) |-> parsed[i].value]), c.store, 1)

mget(c, keys, oc) == Caught(mget_try(c, keys, oc), JsArr(<<>>))

\* An object whose property names are cache keys, as the list of [key,
\* value] pairs Object.entries gives.
JsPairs(entries) == Js("pairs", FALSE, 0, <<>>, NoFields, entries)

\* keyValuePairs is such an object, or undefined (Object.entries then
\* throws).  The pipeline is one transaction; of two values for one key the
\* later stays.
mset_try(c, keyValuePairs, expireInSeconds, oc) ==
    IF Closed(c) THEN Ret(JsBool(FALSE), c.store, 0)
    ELSE IF keyValuePairs.t # "pairs" THEN Thrown(c.store, 0)
    ELSE LET kv == keyValuePairs.a
             keys == { kv[i].key : i \in 1..Len(kv) }
             last(k) == CHOOSE i \in 1..Len(kv) :
                            kv[i].key = k /\ \A j \in (i + 1)..Len(kv) : kv[j].key # k
             texts == [k \in keys |-> JSONstringify(kv[last(k)].value)]
         IN  IF (\E i \in 1..Len(kv) : ~IsString(JSONstringify(kv[i].value)))
                \/ expireInSeconds <= 0
             THEN Thrown(c.store, 0)
             ELSE IF oc = "fail" THEN Thrown(c.store, 1)
             ELSE Ret(JsBool(TRUE),
                      [k \in (DOMAIN c.store) \cup keys |->
                         IF k \in keys
                         THEN [text |-> texts[k], exp |-> c.now + expireInSeconds]
                         ELSE c.store[k]],
                      1)

mset(c, keyValuePairs, expireInSeconds, oc) ==
    Caught(mset_try(c, keyValuePairs, expireInSeconds, oc), JsBool(FALSE))

flushAll_try(c, oc) ==
    IF Closed(c) THEN Ret(JsBool(FALSE), c.store, 0)
    ELSE IF oc = "fail" THEN Thrown(c.store, 1)
    ELSE Ret(JsBool(TRUE), EmptyStore, 1)

flushAll(c, oc) == Caught(flushAll_try(c, oc), JsBool(FALSE))

\* The reply of INFO memory.
MemoryInfo == JsStr(<<"#", " ", "M", "e", "m", "o", "r", "y">>)

\* flagAfter is the value of isConnected when the command has returned.
getStats_try(c, flagAfter, oc) ==
    IF Closed(c) THEN Ret(JsNull, c.store, 0)
    ELSE IF oc = "fail" THEN Thrown(c.store, 1)
    ELSE Ret(JsObj([connected |-> JsBool(flagAfter), memoryUsage |-> MemoryInfo]),
             c.store, 1)

getStats(c, flagAfter, oc) == Caught(getStats_try(c, flagAfter, oc), JsNull)

\* `session:${userId}`
sessionKey_shared(userId) == <<"s", "e", "s", "s", "i", "o", "n", ":">>
sessionKey(userId) == <<"s", "e", "s", "s", "i", "o", "n", ":">> \o userId

setSession_try(c, userId, token, ttlSeconds, oc) ==
    IF Closed(c) THEN Ret(JsBool(FALSE), c.store, 0)
    ELSE SetExThenTrue(c, sessionKey(userId), ttlSeconds, token, oc, 0)

setSession(c, userId, token, ttlSeconds, oc) ==
    Caught(setSession_try(c, userId, token, ttlSeconds, oc), JsBool(FALSE))

getSession_try(c, userId, oc) ==
    IF Closed(c) THEN Ret(JsNull, c.store, 0)
    ELSE IF oc = "fail" THEN Thrown(c.store, 1)
    ELSE Ret(RedisGet(c.store, sessionKey(userId)), c.store, 1)

getSession(c, userId, oc) == Caught(getSession_try(c, userId, oc), JsNull)

deleteSession_try_keep(c, userId, oc) ==
    IF Closed(c) THEN Ret(JsBool(FALSE), c.store, 0)
    ELSE IF oc = "fail" THEN Thrown(c.store, 1)
    ELSE Ret(JsBool(TRUE), c.store, 1)

deleteSession_try(c, userId, oc) ==
    IF Closed(c) THEN Ret(JsBool(FALSE), c.store, 0)
    ELSE IF oc = "fail" THEN Thrown(c.store, 1)
    ELSE Ret(JsBool(TRUE), RedisDel(c.store, sessionKey(userId)), 1)

deleteSession(c, userId, oc) ==
    Caught(deleteSession_try(c, userId, oc), JsBool(FALSE))

\* `healthData:${userId}`
healthKey(userId) == <<"h", "e", "a", "l", "t", "h", "D", "a", "t", "a", ":">> \o userId

HealthTtl == 1800

\* { ...healthData, cachedAt, expiresAt }
dataWithTimestamp_payloadOnly(healthData, at, ttlSeconds) ==
    JsObj(Spread(healthData))
dataWithTimestamp(healthData, at, ttlSeconds) ==
    JsObj(Merge(Spread(healthData),
                [cachedAt |-> toISOString(at),
                 expiresAt |-> toISOString(at + ttlSeconds)]))

setHealthData_try(c, userId, healthData, ttlSeconds, oc) ==
    IF Closed(c) THEN Ret(JsBool(FALSE), c.store, 0)
    ELSE SetExThenTrue(c, healthKey(userId), ttlSeconds,
             JSONstringify(dataWithTimestamp(healthData, c.now, ttlSeconds)), oc, 0)

setHealthData(c, userId, healthData, ttlSeconds, oc) ==
    Caught(setHealthData_try(c, userId, healthData, ttlSeconds, oc), JsBool(FALSE))

getHealthData_try(c, userId, oc) ==
    IF Closed(c) THEN Ret(JsNull, c.store, 0)
    ELSE IF oc = "fail" THEN Thrown(c.store, 1)
    ELSE LET p == ParseOrNull(RedisGet(c.store, healthKey(userId)))
         IN  IF p.threw THEN Thrown(c.store, 1) ELSE Ret(p.value, c.store, 1)

getHealthData(c, userId, oc) == Caught(getHealthData_try(c, userId, oc), JsNull)

\* A BMI is the exact quotient num / den.  Math.floor(bmi / 2.5):
BmiBucket(bmi) == (2 * bmi.num) \div (5 * bmi.den)

\* Math.floor(bmi / 2.5) * 2.5, as a count of halves (5 per bucket).
bmiRangeHalves(bmi) == 5 * BmiBucket(bmi)

\* The number h / 2 as a JavaScript number, and String() of it.
HalvesNum(h) ==
    IF h % 2 = 0 THEN JsNum(h \div 2) ELSE Js("halves", FALSE, h, <<>>, NoFields, <<>>)
HalvesToString(h) ==
    IF h % 2 = 0 THEN NatToString(h \div 2) ELSE NatToString(h \div 2) \o <<".", "5">>

\* Array.isArray(d) ? d.sort().join(',') : d || 'none'
diseaseKey(diseaseTypes) ==
    IF diseaseTypes.t = "arr"
    THEN join(sort([i \in 1..Len(diseaseTypes.a) |-> diseaseTypes.a[i].s]), <<",">>)
    ELSE IF Truthy(diseaseTypes) THEN diseaseTypes.s ELSE <<"n", "o", "n", "e">>

\* `calorie:${bmiRange}:${diseaseKey}`
calorieKey(bmi, diseaseTypes) ==
    <<"c", "a", "l", "o", "r", "i", "e", ":">> \o HalvesToString(bmiRangeHalves(bmi)) \o <<":">> \o diseaseKey(diseaseTypes)

\* The array after diseaseTypes.sort() has sorted it in place.
SortedInPlace(diseaseTypes) ==
    IF diseaseTypes.t = "arr"
    THEN JsArr(LET s == sort([i \in 1..Len(diseaseTypes.a) |-> diseaseTypes.a[i].s])
               IN  [i \in 1..Len(s) |-> JsStr(s[i])])
    ELSE diseaseTypes

CalorieTtl == 7200

\* (existingData.hitCount || 0) + 1
NextHitCount_reset(existingData) == 1
NextHitCount(existingData) ==
    LET h == Prop(existingData, "hitCount")
    IN  IF Truthy(h) /\ h.t = "num" THEN h.n + 1 ELSE 1

setCaloricResult_try(c, bmi, diseaseTypes, calorieData, ttlSeconds, oc1, oc2) ==
    IF Closed(c) THEN Ret(JsBool(FALSE), c.store, 0)
    ELSE IF oc1 = "fail" THEN Thrown(c.store, 1)
    ELSE LET cacheKey == calorieKey(bmi, diseaseTypes)
             existing == RedisGet(c.store, cacheKey)
             p == ParseOrNull(existing)
             resultData(hits) ==
                 JsObj([bmiRange |-> HalvesNum(bmiRangeHalves(bmi)),
                        diseases |-> SortedInPlace(diseaseTypes),
                        result |-> calorieData,
                        cachedAt |-> toISOString(c.now),
                        hitCount |-> JsNum(hits)])
         IN  IF p.threw THEN Thrown(c.store, 1)
             ELSE SetExThenTrue(c, cacheKey, ttlSeconds,
                      JSONstringify(resultData(IF Truthy(existing)
                                                THEN NextHitCount(p.value) ELSE 1)),
                      oc2, 1)

setCaloricResult(c, bmi, diseaseTypes, calorieData, ttlSeconds, oc1, oc2) ==
    Caught(setCaloricResult_try(c, bmi, diseaseTypes, calorieData, ttlSeconds, oc1, oc2),
           JsBool(FALSE))

getCaloricResult_try(c, bmi, diseaseTypes, oc) ==
    IF Closed(c) THEN Ret(JsNull, c.store, 0)
    ELSE IF oc = "fail" THEN Thrown(c.store, 1)
    ELSE LET data == RedisGet(c.store, calorieKey(bmi, diseaseTypes))
             p == ParseOrNull(data)
         IN  IF ~Truthy(data) THEN Ret(JsNull, c.store, 1)
             ELSE IF p.threw THEN Thrown(c.store, 1)
             ELSE IF p.value.t \in {"null", "undefined"} THEN Thrown(c.store, 1)
             ELSE Ret(Prop(p.value, "result"), c.store, 1)

getCaloricResult(c, bmi, diseaseTypes, oc) ==
    Caught(getCaloricResult_try(c, bmi, diseaseTypes, oc), JsNull)

\* Three KEYS commands, one after the other; the first that fails ends the
\* operation.
getCacheAnalytics_try(c, oc1, oc2, oc3) ==
    IF Closed(c) THEN Ret(JsNull, c.store, 0)
    ELSE IF oc1 = "fail" THEN Thrown(c.store, 1)
    ELSE IF oc2 = "fail" THEN Thrown(c.store, 2)
    ELSE IF oc3 = "fail" THEN Thrown(c.store, 3)
    ELSE LET sessionKeys == Cardinality(RedisKeys(c.store, <<"s", "e", "s", "s", "i", "o", "n", ":">>))
             healthKeys == Cardinality(RedisKeys(c.store, <<"h", "e", "a", "l", "t", "h", "D", "a", "t", "a", ":">>))
             calorieKeys == Cardinality(RedisKeys(c.store, <<"c", "a", "l", "o", "r", "i", "e", ":">>))
         IN  Ret(JsObj([activeSessions |-> JsNum(sessionKeys),
                        cachedHealthProfiles |-> JsNum(healthKeys),
                        calorieCalculations |-> JsNum(calorieKeys),
                        totalKeys |-> JsNum(sessionKeys + healthKeys + calorieKeys)]),
                 c.store, 3)

getCacheAnalytics(c, oc1, oc2, oc3) ==
    Caught(getCacheAnalytics_try(c, oc1, oc2, oc3), JsNull)

-----------------------------------------------------------------------------
(* The cache client before it is started, and with no call made yet *)

\* The writers of the result memo that may be in flight together.
MaxWriters == 3
Writers == 1..MaxWriters

\* No setCaloricResult in flight, and no batch of them yet.
IdleCall == [pc |-> "idle", resultData |-> JsUndefined, ret |-> JsUndefined]
NoCalls == [of |-> [w \in Writers |-> IdleCall], before |-> 0, begun |-> 0,
            last |-> JsUndefined]

\* No method called.
NoProbe == [op |-> "none", arg |-> <<>>, ret |-> <<>>]

NoCall == [op |-> "none", args |-> <<>>, closed |-> FALSE, failed |-> FALSE,
           ret |-> JsUndefined, threw |-> FALSE, cmds |-> 0]

NoPuts == NoFields

ClientIdle ==
    /\ redisUrl = FALSE
    /\ started = FALSE
    /\ client = FALSE
    /\ isConnected = FALSE
    /\ store = EmptyStore
    /\ now = 0
    /\ lastCall = NoCall
    /\ puts = NoPuts
    /\ calls = NoCalls
    /\ probe = NoProbe
    /\ lastEvent = "none"

UserIds == {<<"a", "1">>, <<"b", "2">>}

\* No request is between middleware and handler.
NoReq == [route |-> "none", user |-> <<>>, wrapper |-> "none", body |-> JsUndefined,
          flagAtEntry |-> FALSE, miss |-> FALSE]

\* No request has been answered.
NoResp == [ok |-> FALSE, crashed |-> FALSE, invalidated |-> FALSE, covered |-> FALSE,
           same |-> TRUE]

\* Nobody has logged in or out.
NoLogin == [some |-> FALSE, token |-> JsUndefined, at |-> 0, connected |-> FALSE,
            wrote |-> FALSE, over |-> FALSE, out |-> FALSE, deleted |-> FALSE]

\* A user that does not exist.
NoUser == [registered |-> FALSE, healthMetrics |-> JsUndefined]

RoutesIdle ==
    /\ alive = TRUE
    /\ db = [u \in UserIds |-> NoUser]
    /\ req = NoReq
    /\ resp = NoResp
    /\ hist = [u \in UserIds |-> NoLogin]

-----------------------------------------------------------------------------
(* The cipher exercised on its own: hash, tamper with the stored string, compare *)

\* The ways a stored credential string gets corrupted.
Corruptions(text) ==
    { StrVal(SubSeq(text, 1, n)) :
        n \in {0, 3, 40, 44, 63, 64, 70, Len(text) - 1} \cap 0..Len(text) }
    \cup { StrVal(<<"!">> \o text), StrVal(<<"n", "o", "t", " ", "b", "6", "4">>), Undefined }
    \cup { StrVal([text EXCEPT ![Len(text) - 3] = IF @ = "A" THEN "B" ELSE "A"]) }

Candidates == { StrVal(p) : p \in Passwords } \cup {Undefined}

CipherInit ==
    /\ cphase = "idle"
    /\ cpw = StrVal(<<>>)
    /\ csalt = <<>>
    /\ civ = <<>>
    /\ cct = <<>>
    /\ cstored = Undefined
    /\ ccand = Undefined
    /\ cres = Ok(FALSE)

\* userSchema.pre('save'): the password is replaced by hashPassword(password).
CHash ==
    /\ cphase = "idle"
    /\ \E p \in Passwords, s \in Seeds, v \in Seeds :
        LET parts == hashPassword_parts(StrVal(p), s, v)
            h == hashPassword(StrVal(p), s, v)
        IN  /\ ~h.threw
            /\ cphase' = "hashed"
            /\ cpw' = StrVal(p)
            /\ csalt' = parts.value.salt
            /\ civ' = parts.value.iv
            /\ cct' = parts.value.encrypted
            /\ cstored' = h.value
            /\ UNCHANGED <<ccand, cres>>
            /\ UNCHANGED <<clientVars, routeVars, callVars>>

\* The stored string is damaged between save and login.
CCorrupt ==
    /\ cphase = "hashed"
    /\ \E t \in Corruptions(cstored.s) :
        /\ cstored' = t
        /\ cphase' = "corrupted"
    /\ UNCHANGED <<cpw, csalt, civ, cct, ccand, cres>>
    /\ UNCHANGED <<clientVars, routeVars, callVars>>

\* userSchema.methods.comparePassword(candidate).
CCompare ==
    /\ cphase \in {"idle", "hashed", "corrupted"}
    /\ \E q \in Candidates, unpads \in BOOLEAN :
        /\ ccand' = q
        /\ cres' = comparePassword(q, cstored, unpads)
    /\ cphase' = IF cphase = "hashed" THEN "compared" ELSE "comparedBad"
    /\ UNCHANGED <<cpw, csalt, civ, cct, cstored>>
    /\ UNCHANGED <<clientVars, routeVars, callVars>>

CReset ==
    /\ cphase \in {"compared", "comparedBad"}
    /\ cphase' = "idle"
    /\ cpw' = StrVal(<<>>)
    /\ csalt' = <<>>
    /\ civ' = <<>>
    /\ cct' = <<>>
    /\ cstored' = Undefined
    /\ ccand' = Undefined
    /\ cres' = Ok(FALSE)
    /\ UNCHANGED <<clientVars, routeVars, callVars>>

CipherNext == CHash \/ CCorrupt \/ CCompare \/ CReset

CipherStart == CipherInit /\ ClientIdle /\ RoutesIdle

SpecCipher == CipherStart /\ [][CipherNext]_vars

-----------------------------------------------------------------------------
(* Claims about the credential cipher *)

\* C2: comparePassword(q, hashPassword(p)) is true exactly when q = p, and
\* the salt, IV and ciphertext comparePassword cuts from the envelope are
\* the ones hashPassword wrote.
C2_RoundTrip ==
    cphase = "compared" =>
        /\ ~cres.threw
        /\ cres.value = (ccand = cpw)
        /\ BufferFromBase64(cstored) = Ok(csalt \o civ \o cct)
        /\ SplitEnvelope(BufferFromBase64(cstored).value)
              = [salt |-> csalt, iv |-> civ, encrypted |-> cct]

\* C2 witness: the password that was hashed is accepted.
C2_Witness ==
    /\ cphase = "compared"
    /\ ccand = cpw
    /\ Len(cpw.s) >= AesBlock
    /\ cres = Ok(TRUE)

\* C3: comparePassword never throws; whenever its body fails, for either
\* outcome of the padding check, the value returned is false.
C3_NeverThrows ==
    cphase \in {"compared", "comparedBad"} =>
        /\ ~cres.threw
        /\ cres.value \in BOOLEAN
        /\ (\E unpads \in BOOLEAN : comparePassword_try(ccand, cstored, unpads).threw)
              => cres.value = FALSE

\* C3 witness: an envelope cut shorter than salt + IV made the body throw,
\* and false came back.
C3_Witness ==
    /\ cphase = "comparedBad"
    /\ ccand = cpw
    /\ cstored.isString
    /\ Len(BufferFromBase64(cstored).value) \in 1..(saltLength + ivLength - 1)
    /\ \A unpads \in BOOLEAN : comparePassword_try(ccand, cstored, unpads).threw
    /\ cres = Ok(FALSE)

-----------------------------------------------------------------------------
(* The cache client in operation: the singleton of config/redis.js, its    *)
(* connection events and direct calls of its operations.                   *)

\* The state the operations read.
C == [client |-> client, isConnected |-> isConnected, store |-> store, now |-> now]

\* The clock advances in steps of half the shortest time to live.
TickStep == HealthTtl \div 2
MaxTicks == 2

\* jwt.sign({ userId }, secret): a string that carries its payload.
Jwt(userId, iat) == Js("jwt", FALSE, iat, userId, NoFields, <<>>)

PerfKey == <<"p", "e", "r", "f", ":", "t", "e", "s", "t">>
CallKeys == {PerfKey, sessionKey(<<"a", "1">>)}
CallData == <<JsObj([test |-> JsBool(TRUE)]), JsNum(0), JsUndefined>>
CallKeyLists == <<JsUndefined, JsArr(<<>>), JsArr(<<JsStr(PerfKey), JsStr(sessionKey(<<"a", "1">>))>>),
                 JsArr(<<JsStr(PerfKey)>>)>>
CallPairs == <<JsUndefined,
               JsPairs(<<[key |-> PerfKey, value |-> JsObj([test |-> JsBool(TRUE)])]>>),
               JsPairs(<<[key |-> PerfKey, value |-> JsUndefined]>>)>>

HealthPayloads ==
    <<JsObj([weight |-> JsNum(70), height |-> JsNum(175)]),
     JsObj([weight |-> JsNum(80), cachedAt |-> JsNum(1)]),
     JsNull>>

Bmi(num, den) == [num |-> num, den |-> den]
CallBmis == {Bmi(249, 10), Bmi(231, 10), Bmi(25, 1)}
Asthma == JsStr(<<"A", "s", "t", "h", "m", "a">>)
Obesity == JsStr(<<"O", "b", "e", "s", "i", "t", "y">>)
CallDiseases == <<JsArr(<<>>), JsArr(<<Asthma>>), JsArr(<<Asthma, Asthma>>),
                 JsArr(<<Obesity, Asthma>>), JsArr(<<Asthma, Obesity>>), JsUndefined>>
CallResults == {JsObj([dailyCalories |-> JsNum(2000)]), JsObj([dailyCalories |-> JsNum(1800)])}

\* What a call leaves behind: the operation, its arguments, whether the
\* guard found the client closed, whether a command it issued failed, and
\* what came back.
Called(op, args, r, ocs) ==
    [op |-> op, args |-> args, closed |-> Closed(C),
     failed |-> \E i \in 1..Min(r.cmds, Len(ocs)) : ocs[i] = "fail",
     ret |-> r.ret, threw |-> r.threw, cmds |-> r.cmds]

\* The puts still in force after the store went from st to st2: those whose
\* entry is untouched, and the put just made (key |-> put), if any.
PutsAfter(st, st2, new) ==
    LET kept == { k \in DOMAIN puts : k \in DOMAIN st2 /\ st2[k] = st[k] }
    IN  [k \in kept \cup (DOMAIN new) |-> IF k \in DOMAIN new THEN new[k] ELSE puts[k]]

\* A call has run: its effect on the store, its record, the puts in force.
MaxEntries == 1

\* The store an operation leaves holds no more entries than the bound.
Fits(r) == Cardinality(DOMAIN r.store) <= MaxEntries

Finish(op, args, r, ocs, new) ==
    /\ store' = r.store
    /\ lastCall' = Called(op, args, r, ocs)
    /\ puts' = PutsAfter(store, r.store, IF JsEq(r.ret, JsBool(TRUE)) THEN new ELSE NoPuts)
    /\ UNCHANGED <<redisUrl, started, client, isConnected, now>>
    /\ UNCHANGED <<cipherVars, routeVars, callVars>>

ClientInit ==
    /\ redisUrl \in BOOLEAN
    /\ started = FALSE
    /\ client = FALSE
    /\ isConnected = FALSE
    /\ store = EmptyStore
    /\ now = 0
    /\ lastCall = NoCall
    /\ puts = NoPuts
    /\ calls = NoCalls
    /\ probe = NoProbe
    /\ lastEvent = "none"

\* connect(): nothing without REDIS_URL; else the client is created, the
\* handlers are registered and the connection is attempted.
Connect ==
    /\ ~started
    /\ started' = TRUE
    /\ IF ~redisUrl
       THEN /\ isConnected' = FALSE
            /\ UNCHANGED client
       ELSE /\ client' = TRUE
            /\ \E oc \in Outcomes : isConnected' = (oc = "ok")
    /\ UNCHANGED <<redisUrl, store, now, lastCall, puts>>
    /\ UNCHANGED <<cipherVars, routeVars, callVars>>

\* client.on('ready')
OnReady ==
    /\ client
    /\ isConnected' = TRUE
    /\ UNCHANGED <<redisUrl, started, client, store, now, lastCall, puts>>
    /\ UNCHANGED <<cipherVars, routeVars, callVars>>

\* client.on('error')
OnError ==
    /\ client
    /\ isConnected' = FALSE
    /\ UNCHANGED <<redisUrl, started, client, store, now, lastCall, puts>>
    /\ UNCHANGED <<cipherVars, routeVars, callVars>>

\* client.on('end')
OnEnd ==
    /\ client
    /\ isConnected' = FALSE
    /\ UNCHANGED <<redisUrl, started, client, store, now, lastCall, puts>>
    /\ UNCHANGED <<cipherVars, routeVars, callVars>>

\* Time passes; entries whose time to live has run out disappear.
Tick ==
    /\ now < MaxTicks * TickStep
    /\ now' = now + TickStep
    /\ store' = Purge(store, now + TickStep)
    /\ puts' = [k \in { j \in DOMAIN puts : j \in DOMAIN Purge(store, now + TickStep) } |-> puts[k]]
    /\ UNCHANGED <<redisUrl, started, client, isConnected, lastCall>>
    /\ UNCHANGED <<cipherVars, routeVars, callVars>>

CallGet ==
    \E key \in CallKeys, oc \in Outcomes :
        LET r == get(C, key, oc)
        IN  /\ Fits(r)
            /\ Finish("get", <<>>, r, <<oc>>, NoPuts)

CallSet ==
    \E key \in {PerfKey}, d \in DOMAIN CallData, oc \in Outcomes :
        LET r == set(C, key, CallData[d], DefaultExpire, oc)
        IN  /\ Fits(r)
            /\ Finish("set", <<>>, r, <<oc>>, NoPuts)

CallDel(Keys) ==
    \E key \in Keys, oc \in Outcomes :
        LET r == del(C, key, oc)
        IN  /\ Fits(r)
            /\ Finish("del", <<>>, r, <<oc>>, NoPuts)

CallExists ==
    \E key \in CallKeys, oc \in Outcomes :
        LET r == exists(C, key, oc)
        IN  /\ Fits(r)
            /\ Finish("exists", <<>>, r, <<oc>>, NoPuts)

CallMget ==
    \E k \in DOMAIN CallKeyLists, oc \in Outcomes :
        LET r == mget(C, CallKeyLists[k], oc)
        IN  /\ Fits(r)
            /\ Finish("mget", <<>>, r, <<oc>>, NoPuts)

CallMset ==
    \E p \in DOMAIN CallPairs, oc \in Outcomes :
        LET r == mset(C, CallPairs[p], DefaultExpire, oc)
        IN  /\ Fits(r)
            /\ Finish("mset", <<>>, r, <<oc>>, NoPuts)

CallFlushAll ==
    \E oc \in Outcomes :
        LET r == flushAll(C, oc)
        IN  /\ Fits(r)
            /\ Finish("flushAll", <<>>, r, <<oc>>, NoPuts)

CallGetStats ==
    \E flagAfter \in BOOLEAN, oc \in Outcomes :
        LET r == getStats(C, flagAfter, oc)
        IN  /\ Fits(r)
            /\ Finish("getStats", <<>>, r, <<oc>>, NoPuts)

CallSetSession(Ids) ==
    \E userId \in Ids, signed \in BOOLEAN, oc \in Outcomes :
        LET token == IF signed THEN Jwt(userId, now) ELSE JsUndefined
            r == setSession(C, userId, token, DefaultExpire, oc)
        IN  /\ Fits(r)
            /\ Finish("setSession", <<>>, r, <<oc>>, NoPuts)

CallGetSession(Ids) ==
    \E userId \in Ids, oc \in Outcomes :
        LET r == getSession(C, userId, oc)
        IN  /\ Fits(r)
            /\ Finish("getSession", <<userId>>, r, <<oc>>, NoPuts)

CallDeleteSession(Ids) ==
    \E userId \in Ids, oc \in Outcomes :
        LET r == deleteSession(C, userId, oc)
        IN  /\ Fits(r)
            /\ Finish("deleteSession", <<>>, r, <<oc>>, NoPuts)

CallSetHealthData(Ids, Payloads) ==
    \E userId \in Ids, h \in DOMAIN Payloads, oc \in Outcomes :
        LET healthData == Payloads[h]
            r == setHealthData(C, userId, healthData, HealthTtl, oc)
        IN  /\ Fits(r)
            /\ Finish("setHealthData", <<>>, r, <<oc>>,
                   [k \in {healthKey(userId)} |->
                      [kind |-> "health", userId |-> userId, payload |-> healthData,
                       at |-> now, ttl |-> HealthTtl]])

CallGetHealthData(Ids) ==
    \E userId \in Ids, oc \in Outcomes :
        LET r == getHealthData(C, userId, oc)
        IN  /\ Fits(r)
            /\ Finish("getHealthData", <<userId>>, r, <<oc>>, NoPuts)

\* The hit count of the entry under a key (0 when there is none).
HitsOf(st, key) ==
    IF key \in DOMAIN st /\ st[key].text.t = "json"
       /\ Prop(TextValue(st[key].text), "hitCount").t = "num"
    THEN Prop(TextValue(st[key].text), "hitCount").n ELSE 0

MaxHits == 2

CallSetCaloricResult(Bmis, Diseases, Results) ==
    \E bmi \in Bmis, d \in DOMAIN Diseases, calorieData \in Results,
       oc1 \in Outcomes, oc2 \in Outcomes :
        LET diseaseTypes == Diseases[d]
            r == setCaloricResult(C, bmi, diseaseTypes, calorieData, CalorieTtl, oc1, oc2)
        IN  /\ oc1 = "fail" => oc2 = "fail"    \* the second command is not issued
            /\ HitsOf(store, calorieKey(bmi, diseaseTypes)) < MaxHits
            /\ Fits(r)
            /\ Finish("setCaloricResult", <<>>, r, <<oc1, oc2>>,
                   [k \in {calorieKey(bmi, diseaseTypes)} |->
                      [kind |-> "calorie", bmi |-> bmi, diseaseTypes |-> diseaseTypes,
                       value |-> calorieData, at |-> now, ttl |-> CalorieTtl]])

CallGetCaloricResult(Bmis, Diseases) ==
    \E bmi \in Bmis, d \in DOMAIN Diseases, oc \in Outcomes :
        LET diseaseTypes == Diseases[d]
            r == getCaloricResult(C, bmi, diseaseTypes, oc)
        IN  /\ Fits(r)
            /\ Finish("getCaloricResult", <<bmi, diseaseTypes>>, r, <<oc>>, NoPuts)

CallGetCacheAnalytics ==
    \E oc1 \in Outcomes, oc2 \in Outcomes, oc3 \in Outcomes :
        LET r == getCacheAnalytics(C, oc1, oc2, oc3)
        IN  /\ oc1 = "fail" => oc2 = "fail"    \* the later commands are not issued
            /\ oc2 = "fail" => oc3 = "fail"
            /\ Fits(r)
            /\ Finish("getCacheAnalytics", <<>>, r, <<oc1, oc2, oc3>>, NoPuts)

\* Every operation, called directly, with one identity and one profile.
OneId == {<<"a", "1">>}
OnePayload == <<HealthPayloads[1]>>
OneBmi == {Bmi(249, 10)}
OneDiseases == <<JsArr(<<Asthma>>)>>
OneResult == {JsObj([dailyCalories |-> JsNum(2000)])}

ClientNext ==
    \/ Connect \/ OnReady \/ OnError \/ OnEnd \/ Tick
    \/ CallGet \/ CallSet \/ CallDel(CallKeys) \/ CallExists \/ CallMget \/ CallMset
    \/ CallFlushAll \/ CallGetStats
    \/ CallSetSession(OneId) \/ CallGetSession(OneId) \/ CallDeleteSession(OneId)
    \/ CallSetHealthData(OneId, OnePayload) \/ CallGetHealthData(OneId)
    \/ CallSetCaloricResult(OneBmi, OneDiseases, OneResult)
    \/ CallGetCaloricResult(OneBmi, OneDiseases)
    \/ CallGetCacheAnalytics

ClientStart == ClientInit /\ CipherInit /\ RoutesIdle

SpecClient == ClientStart /\ [][ClientNext]_vars

\* The result memo on its own: BMIs in and across buckets, condition lists
\* in several orders and with repeats.
CalorieNext ==
    \/ Connect \/ OnReady \/ OnError
    \/ CallSetCaloricResult(CallBmis, CallDiseases, CallResults)
    \/ CallGetCaloricResult(CallBmis, CallDiseases)

SpecCalorie == ClientStart /\ [][CalorieNext]_vars

\* The profile cache on its own: two identities, several payloads.
HealthNext ==
    \/ Connect \/ OnReady \/ OnError \/ Tick
    \/ CallSetHealthData(UserIds, HealthPayloads)
    \/ CallGetHealthData(UserIds)
    \/ CallDel({healthKey(u) : u \in UserIds})

SpecHealth == ClientStart /\ [][HealthNext]_vars

-----------------------------------------------------------------------------
(* Claims about the cache client *)

\* The value an operation returns when it does nothing: null, false or [].
EmptyValue(op) ==
    CASE op \in {"get", "getStats", "getSession", "getHealthData",
                 "getCaloricResult", "getCacheAnalytics"} -> JsNull
      [] op = "mget" -> JsArr(<<>>)
      [] OTHER -> JsBool(FALSE)

\* C1: fail-open.  No call of a RedisClient operation lets an exception
\* out; a call made while isConnected is false or client is null returns
\* the operation's empty value and issues no backend command; a call one of
\* whose backend commands fails returns the empty value too.
C1_FailOpen ==
    lastCall.op # "none" =>
        /\ ~lastCall.threw
        /\ lastCall.closed =>
              /\ JsEq(lastCall.ret, EmptyValue(lastCall.op))
              /\ lastCall.cmds = 0
        /\ lastCall.failed => JsEq(lastCall.ret, EmptyValue(lastCall.op))

\* C1 witness: setCaloricResult passed its guard, read the key, and its
\* write failed; false came back.
C1_Witness ==
    /\ lastCall.op = "setCaloricResult"
    /\ ~lastCall.closed
    /\ lastCall.failed
    /\ lastCall.cmds = 2
    /\ ~lastCall.threw
    /\ JsEq(lastCall.ret, JsBool(FALSE))

\* The elements of an array of strings, as a set.
ElementSet(arr) == { arr.a[i].s : i \in 1..Len(arr.a) }

\* C4: bucketing collision.  A getCaloricResult that went through returns
\* the value of every setCaloricResult still in force whose BMI has the
\* same floor(bmi / 2.5) and whose conditions are the same set.
C4_SameBucketSameValue ==
    (lastCall.op = "getCaloricResult" /\ ~lastCall.closed /\ ~lastCall.failed) =>
        \A k \in DOMAIN puts :
            ( /\ puts[k].kind = "calorie"
              /\ now < puts[k].at + puts[k].ttl
              /\ BmiBucket(puts[k].bmi) = BmiBucket(lastCall.args[1])
              /\ puts[k].diseaseTypes.t = "arr"
              /\ lastCall.args[2].t = "arr"
              /\ ElementSet(puts[k].diseaseTypes) = ElementSet(lastCall.args[2]) )
            => JsEq(lastCall.ret, puts[k].value)

\* C5 as stated: getHealthData returns the payload of the setHealthData
\* still in force for that identity, nothing added, removed or overwritten.
C5_SamePayload ==
    (lastCall.op = "getHealthData" /\ ~lastCall.closed /\ ~lastCall.failed) =>
        \A k \in DOMAIN puts :
            ( /\ puts[k].kind = "health"
              /\ puts[k].userId = lastCall.args[1]
              /\ now < puts[k].at + puts[k].ttl )
            => JsEq(lastCall.ret, puts[k].payload)

Stamps == {"cachedAt", "expiresAt"}

\* C5 amended: getHealthData returns an object that holds every field of
\* the payload other than cachedAt and expiresAt, unchanged, and in addition
\* cachedAt, the instant of the put, and expiresAt, that instant plus the
\* time to live; these two replace payload fields of the same names.
C5_PayloadWithStamps ==
    (lastCall.op = "getHealthData" /\ ~lastCall.closed /\ ~lastCall.failed) =>
        \A k \in DOMAIN puts :
            ( /\ puts[k].kind = "health"
              /\ puts[k].userId = lastCall.args[1]
              /\ now < puts[k].at + puts[k].ttl )
            => LET given == Spread(puts[k].payload)
                   got == lastCall.ret
               IN  /\ got.t = "obj"
                   /\ DOMAIN got.o = (DOMAIN given) \cup Stamps
                   /\ \A f \in (DOMAIN given) \ Stamps : JsEq(got.o[f], given[f])
                   /\ JsEq(got.o["cachedAt"], toISOString(puts[k].at))
                   /\ JsEq(got.o["expiresAt"], toISOString(puts[k].at + puts[k].ttl))

\* C5 witness: a payload with a cachedAt of its own was put, time passed
\* within the time to live, and getHealthData returned an object.
C5_Witness ==
    /\ lastCall.op = "getHealthData"
    /\ ~lastCall.closed
    /\ ~lastCall.failed
    /\ lastCall.ret.t = "obj"
    /\ \E k \in DOMAIN puts :
          /\ puts[k].kind = "health"
          /\ puts[k].userId = lastCall.args[1]
          /\ puts[k].at < now
          /\ now < puts[k].at + puts[k].ttl
          /\ "cachedAt" \in DOMAIN Spread(puts[k].payload)
          /\ "weight" \in DOMAIN lastCall.ret.o

-----------------------------------------------------------------------------
(* Express responses and the cache middleware (middleware/cache.js)        *)

\* The times to live the middleware and the routes pass.
SessionTtl == 604800
JwtTtl == 604800
WarmTtl == 3600
MetricsCacheTtl == 3600
ProfileTtl == 1800

\* The nesting of calls past which the engine throws RangeError.
StackDepth == 6

\* res.json(obj) and res.send(body) under the wrapper a middleware left on
\* the response.  Express's json ends with `return this.send(body)`.
\* invalidateCache replaces json by invalidateAfterResponse, which ends with
\* originalJson.call(this, data), and send by a function that calls
\* invalidateAfterResponse and then the original send.  cache() replaces
\* json only.  The value is "sent", or "RangeError" when the stack ran out.
RECURSIVE resJson(_, _)
RECURSIVE resSend(_, _)
resJson(wrapper, depth) ==
    IF depth > StackDepth THEN "RangeError"
    ELSE resSend(wrapper, depth + 1)

resSend(wrapper, depth) ==
    IF depth > StackDepth THEN "RangeError"
    ELSE IF wrapper = "invalidate"
         THEN LET r == resJson(wrapper, depth + 1)
              IN  IF r = "RangeError" THEN r ELSE "sent"
         ELSE "sent"

\* `cache:health:${userId}:${dataType}`
healthCacheKey(dataType, userId) ==
    <<"c", "a", "c", "h", "e", ":", "h", "e", "a", "l", "t", "h", ":">> \o userId \o <<":">> \o dataType

\* The keys invalidateAfterResponse knows.
keysToDelete(userId) ==
    << <<"c", "a", "c", "h", "e", ":">> \o userId \o <<":", "/", "a", "p", "i", "/", "h", "e", "a", "l", "t", "h", "/", "m", "e", "t", "r", "i", "c", "s">>,
       <<"c", "a", "c", "h", "e", ":">> \o userId \o <<":", "/", "a", "p", "i", "/", "h", "e", "a", "l", "t", "h", "/", "d", "i", "s", "e", "a", "s", "e", "s">>,
       <<"c", "a", "c", "h", "e", ":">> \o userId \o <<":", "/", "a", "p", "i", "/", "h", "e", "a", "l", "t", "h", "/", "m", "e", "d", "i", "c", "a", "t", "i", "o", "n", "s">>,
       <<"c", "a", "c", "h", "e", ":">> \o userId \o <<":", "/", "a", "p", "i", "/", "h", "e", "a", "l", "t", "h", "/", "s", "u", "m", "m", "a", "r", "y">>,
       <<"c", "a", "c", "h", "e", ":">> \o userId \o <<":", "/", "a", "p", "i", "/", "m", "e", "a", "l", "s", "/", "d", "a", "i", "l", "y">>,
       <<"c", "a", "c", "h", "e", ":">> \o userId \o <<":", "/", "a", "p", "i", "/", "m", "e", "a", "l", "s", "/", "w", "e", "e", "k", "l", "y">>,
       <<"c", "a", "c", "h", "e", ":">> \o userId \o <<":", "/", "a", "p", "i", "/", "a", "i", "/", "r", "e", "c", "o", "m", "m", "e", "n", "d", "a", "t", "i", "o", "n", "s">> >>

\* key.includes(fullPattern.replace('cache:', '').replace(':userId:', userId))
\* with fullPattern = pattern.replace(':userId', userId)
KeyMatches(key, pattern, userId) ==
    LET fullPattern == replace(pattern, <<":", "u", "s", "e", "r", "I", "d">>, userId)
    IN  includes(key, replace(replace(fullPattern, <<"c", "a", "c", "h", "e", ":">>, <<>>), <<":", "u", "s", "e", "r", "I", "d", ":">>, userId))

\* The keys invalidateAfterResponse deletes for a list of patterns.
Invalidated(patterns, userId) ==
    { keysToDelete(userId)[i] : i \in { j \in 1..Len(keysToDelete(userId)) :
          \E p \in 1..Len(patterns) : KeyMatches(keysToDelete(userId)[j], patterns[p], userId) } }

\* The store without the keys a set of DEL commands names.
DelAll(st, keys) == [k \in (DOMAIN st) \ keys |-> st[k]]

\* cache(expireInSeconds, keyGenerator) up to next(): skipped when the flag
\* is down; a truthy value under the key is sent at once; else res.json is
\* wrapped.
cache(c, cacheKey, oc) ==
    IF ~c.isConnected THEN [hit |-> FALSE, wrapper |-> "none", data |-> JsNull]
    ELSE LET cachedData == get(c, cacheKey, oc).ret
         IN  IF Truthy(cachedData)
             THEN [hit |-> TRUE, wrapper |-> "none", data |-> cachedData]
             ELSE [hit |-> FALSE, wrapper |-> "cache", data |-> JsNull]

\* invalidateCache(patterns) up to next(): skipped when the flag is down or
\* the request has no user; else res.json and res.send are wrapped.
invalidateCache(c, userId) ==
    IF ~c.isConnected \/ userId = <<>> THEN "none" ELSE "invalidate"

\* No wrapper on the response.
NoWrapper == [kind |-> "none", key |-> <<>>, ttl |-> 0, patterns |-> <<>>, userId |-> <<>>]

\* if (res.statusCode >= 200 && res.statusCode < 300): the wrapper of
\* invalidateCache deletes only for a 2xx status.
Invalidates_anyStatus(w, status) == w.kind = "invalidate"
Invalidates(w, status) == w.kind = "invalidate" /\ status >= 200 /\ status < 300

\* What the wrapped res.json does to the store before it calls the original:
\* cache() sets the body under the key, whatever the status; invalidateCache
\* deletes the matching keys when the status is 2xx (reached: the keys whose
\* DEL got to the server).
StoreAfterJson(c, w, status, data, oc, reached) ==
    CASE w.kind = "cache" -> set(c, w.key, data, w.ttl, oc).store
      [] w.kind = "invalidate" ->
            IF Invalidates(w, status) /\ ~Closed(c)
            THEN DelAll(c.store, Invalidated(w.patterns, w.userId) \cap reached)
            ELSE c.store
      [] OTHER -> c.store

\* The client has its answer.
Answer(status, data, st, d, applied) ==
    [status |-> status, body |-> JSONstringify(data), crashed |-> FALSE,
     invalidated |-> FALSE, applied |-> applied, store |-> st, db |-> d]

\* The process is gone and the client has no answer.
Exit(st, d, applied, invalidated) ==
    [status |-> 0, body |-> JsUndefined, crashed |-> TRUE,
     invalidated |-> invalidated, applied |-> applied, store |-> st, db |-> d]

\* The last statement of a handler, try { ... res.status(status).json(data) }
\* catch (error) { res.status(500).json(...) }.  When res.json throws, the
\* catch block calls it again and it throws again; the handler's promise
\* rejects, nothing handles the rejection, and server.js exits on
\* 'unhandledRejection'.
Reply(c, w, status, data, d, applied, oc, reached) ==
    LET st == StoreAfterJson(c, w, status, data, oc, reached)
    IN  IF resJson(w.kind, 0) = "sent"
        THEN Answer(status, data, st, d, applied)
        ELSE Exit(st, d, applied, Invalidates(w, status))

-----------------------------------------------------------------------------
(* The routes (routes/health.js, routes/auth.js).  A handler is an operator *)
(* of the client state c, the users collection d and the request; it yields *)
(* the answer and the store and the collection it leaves.  Of a user the    *)
(* model keeps the id and healthMetrics, of healthMetrics height and weight. *)

Message(text) == JsObj([message |-> JsStr(text)])

\* A user that has just been created.
NewUser == [registered |-> TRUE, healthMetrics |-> JsObj(EmptyFields)]

\* The user document as JSON.stringify sees it.
UserDoc(d, userId) ==
    JsObj([_id |-> JsStr(userId), healthMetrics |-> d[userId].healthMetrics])

\* A number with two decimals, n / 100.
JsDec(n) == Js("dec", FALSE, n, <<>>, NoFields, <<>>)

\* getBMICategory(weight / (height / 100) ^ 2)
getBMICategory(weight, height) ==
    IF 2 * weight * 10000 < 37 * height * height THEN JsStr(<<"U", "n", "d", "e", "r", "w", "e", "i", "g", "h", "t">>)
    ELSE IF weight * 10000 < 25 * height * height THEN JsStr(<<"N", "o", "r", "m", "a", "l", " ", "w", "e", "i", "g", "h", "t">>)
    ELSE IF weight * 10000 < 30 * height * height THEN JsStr(<<"O", "v", "e", "r", "w", "e", "i", "g", "h", "t">>)
    ELSE JsStr(<<"O", "b", "e", "s", "e">>)

\* Math.round(bmi * 100) / 100, in hundredths.
RoundedBmi(weight, height) ==
    (2 * weight * 1000000 + height * height) \div (2 * height * height)

\* { ...healthMetrics } and, when height and weight are set, bmi and
\* bmiCategory.
calculatedData(healthMetrics) ==
    LET height == Prop(healthMetrics, "height")
        weight == Prop(healthMetrics, "weight")
    IN  IF Truthy(height) /\ Truthy(weight)
        THEN JsObj(Merge(Spread(healthMetrics),
                         [bmi |-> JsDec(RoundedBmi(weight.n, height.n)),
                          bmiCategory |-> getBMICategory(weight.n, height.n)]))
        ELSE JsObj(Spread(healthMetrics))

\* GET /metrics, the handler: the profile cache, else the database, the
\* computed profile put into the profile cache, and the answer.
getMetrics(c, kind, d, userId, oc1, oc2, oc3) ==
    LET w == [kind |-> kind, key |-> healthCacheKey(<<"m", "e", "t", "r", "i", "c", "s">>, userId),
              ttl |-> MetricsCacheTtl, patterns |-> <<>>, userId |-> userId]
        cachedHealthData == getHealthData(c, userId, oc1).ret
    IN  IF Truthy(cachedHealthData)
        THEN Reply(c, w, 200, cachedHealthData, d, FALSE, oc3, {})
        ELSE IF ~d[userId].registered \/ d[userId].healthMetrics.t # "obj"
        THEN Reply(c, w, 500, Message(<<"F", "a", "i", "l", "e", "d", " ", "t", "o", " ", "f", "e", "t", "c", "h", " ", "h", "e", "a", "l", "t", "h", " ", "m", "e", "t", "r", "i", "c", "s">>), d, FALSE, oc3, {})
        ELSE LET data == calculatedData(d[userId].healthMetrics)
                 s == setHealthData(c, userId, data, ProfileTtl, oc2)
             IN  Reply([c EXCEPT !.store = s.store], w, 200, data, d,
                       JsEq(s.ret, JsBool(TRUE)), oc3, {})

\* The fields of the body the validators reject: height is a number from 50
\* to 250, weight one from 20 to 300, each optional.
BadField(body, name, lo, hi) ==
    /\ Prop(body, name).t # "undefined"
    /\ ~(Prop(body, name).t = "num" /\ lo <= Prop(body, name).n /\ Prop(body, name).n <= hi)

validationErrors(body) ==
    (IF BadField(body, "height", 50, 250) THEN <<JsStr(<<"h", "e", "i", "g", "h", "t">>)>> ELSE <<>>)
    \o (IF BadField(body, "weight", 20, 300) THEN <<JsStr(<<"w", "e", "i", "g", "h", "t">>)>> ELSE <<>>)

\* { lastUpdated: new Date() } and the fields the body provides.
updateData(body, at) ==
    LET given == { f \in {"height", "weight"} : Prop(body, f).t # "undefined" }
    IN  JsObj([f \in given \cup {"lastUpdated"} |->
                 IF f = "lastUpdated" THEN JsDate(at) ELSE Prop(body, f)])

\* invalidateCache(['health', 'summary'])
PutPatterns == << <<"h", "e", "a", "l", "t", "h">>, <<"s", "u", "m", "m", "a", "r", "y">> >>

\* PUT /metrics, the handler: validation, the update of the user, the answer.
putMetrics(c, kind, d, userId, body, reached) ==
    LET w == [kind |-> kind, key |-> <<>>, ttl |-> 0,
              patterns |-> PutPatterns, userId |-> userId]
        errors == validationErrors(body)
        d2 == [d EXCEPT ![userId].healthMetrics = updateData(body, c.now)]
    IN  IF errors # <<>>
        THEN Reply(c, w, 400, JsObj([message |-> JsStr(<<"V", "a", "l", "i", "d", "a", "t", "i", "o", "n", " ", "f", "a", "i", "l", "e", "d">>),
                                     errors |-> JsArr(errors)]), d, FALSE, "ok", reached)
        ELSE IF ~d[userId].registered
        THEN Reply(c, w, 500, Message(<<"F", "a", "i", "l", "e", "d", " ", "t", "o", " ", "u", "p", "d", "a", "t", "e", " ", "h", "e", "a", "l", "t", "h", " ", "m", "e", "t", "r", "i", "c", "s">>), d, FALSE, "ok", reached)
        ELSE Reply(c, w, 200,
                   JsObj([message |-> JsStr(<<"H", "e", "a", "l", "t", "h", " ", "m", "e", "t", "r", "i", "c", "s", " ", "u", "p", "d", "a", "t", "e", "d", " ", "s", "u", "c", "c", "e", "s", "s", "f", "u", "l", "l", "y">>),
                          healthMetrics |-> d2[userId].healthMetrics]),
                   d2, FALSE, "ok", reached)

\* `session:legacy:${userId}` and `user:${userId}:profile`
legacyKey(userId) == <<"s", "e", "s", "s", "i", "o", "n", ":", "l", "e", "g", "a", "c", "y", ":">> \o userId
profileKey(userId) == <<"u", "s", "e", "r", ":">> \o userId \o <<":", "p", "r", "o", "f", "i", "l", "e">>

\* try { await redisClient.client.set(key, text, { EX: seconds }) } catch {}
\* behind `redisClient.isConnected && redisClient.client`.
clientSet(c, key, text, seconds, oc) ==
    IF Closed(c) \/ oc = "fail" THEN c.store
    ELSE RedisSetEx(c.store, c.now, key, seconds, text).value

\* warmCache(userId, userData) of routes/auth.js
warmCache(c, userId, userData, oc) ==
    clientSet(c, profileKey(userId), JSONstringify(userData), WarmTtl, oc)

\* What login and registration do with the cache once the token is signed:
\* the session, the warmed profile, the legacy session.
sessionWrites(c, d, userId, token, oc1, oc2, oc3) ==
    LET s == IF c.isConnected
             THEN setSession(c, userId, token, SessionTtl, oc1)
             ELSE Ret(JsBool(FALSE), c.store, 0)
        st2 == IF c.isConnected
               THEN warmCache([c EXCEPT !.store = s.store], userId, UserDoc(d, userId), oc2)
               ELSE s.store
        st3 == clientSet([c EXCEPT !.store = st2], legacyKey(userId),
                         JSONstringify(JsObj([userId |-> JsStr(userId),
                                              loginTime |-> JsDate(c.now)])),
                         SessionTtl, oc3)
    IN  [store |-> st3, applied |-> JsEq(s.ret, JsBool(TRUE))]

\* The token and the user in the answer of login and registration.
Credentials(text, userId, token) ==
    JsObj([message |-> JsStr(text), token |-> token,
           user |-> JsObj([id |-> JsStr(userId)])])

\* POST /login
login(c, d, userId, isPasswordValid, oc1, oc2, oc3) ==
    IF ~d[userId].registered \/ ~isPasswordValid
    THEN Reply(c, NoWrapper, 401, Message(<<"I", "n", "v", "a", "l", "i", "d", " ", "e", "m", "a", "i", "l", " ", "o", "r", " ", "p", "a", "s", "s", "w", "o", "r", "d">>), d, FALSE, "ok", {})
    ELSE LET token == Jwt(userId, c.now)
             s == sessionWrites(c, d, userId, token, oc1, oc2, oc3)
         IN  Reply([c EXCEPT !.store = s.store], NoWrapper, 200,
                   Credentials(<<"L", "o", "g", "i", "n", " ", "s", "u", "c", "c", "e", "s", "s", "f", "u", "l">>, userId, token), d, s.applied, "ok", {})

\* POST /register
register(c, d, userId, problem, oc1, oc2, oc3) ==
    IF problem = "validation"
    THEN Reply(c, NoWrapper, 400, Message(<<"V", "a", "l", "i", "d", "a", "t", "i", "o", "n", " ", "f", "a", "i", "l", "e", "d">>), d, FALSE, "ok", {})
    ELSE IF problem = "weak"
    THEN Reply(c, NoWrapper, 400, Message(<<"P", "a", "s", "s", "w", "o", "r", "d", " ", "i", "s", " ", "t", "o", "o", " ", "w", "e", "a", "k">>), d, FALSE, "ok", {})
    ELSE IF d[userId].registered
    THEN Reply(c, NoWrapper, 400, Message(<<"U", "s", "e", "r", " ", "w", "i", "t", "h", " ", "t", "h", "i", "s", " ", "e", "m", "a", "i", "l", " ", "a", "l", "r", "e", "a", "d", "y", " ", "e", "x", "i", "s", "t", "s">>), d, FALSE, "ok", {})
    ELSE LET d2 == [d EXCEPT ![userId] = NewUser]
             token == Jwt(userId, c.now)
             s == sessionWrites(c, d2, userId, token, oc1, oc2, oc3)
         IN  Reply([c EXCEPT !.store = s.store], NoWrapper, 201,
                   Credentials(<<"U", "s", "e", "r", " ", "c", "r", "e", "a", "t", "e", "d", " ", "s", "u", "c", "c", "e", "s", "s", "f", "u", "l", "l", "y">>, userId, token), d2, s.applied, "ok", {})

\* jwt.verify(token, secret) throws unless the token is one the server
\* signed and its seven days are not over.
Verifies(token, at) == token.t = "jwt" /\ at < token.n + JwtTtl

\* POST /logout: the session is deleted and, when the flag is up, the
\* legacy session, the warmed profile and the profile cache; the call of
\* invalidateCache([...]) only builds a middleware and runs nothing.
logout(c, d, token, oc1, oc2, oc3, oc4) ==
    IF ~Truthy(token)
    THEN Reply(c, NoWrapper, 401, Message(<<"N", "o", " ", "t", "o", "k", "e", "n", " ", "p", "r", "o", "v", "i", "d", "e", "d">>), d, FALSE, "ok", {})
    ELSE IF ~Verifies(token, c.now)
    THEN Reply(c, NoWrapper, 500, Message(<<"E", "r", "r", "o", "r", " ", "d", "u", "r", "i", "n", "g", " ", "l", "o", "g", "o", "u", "t">>), d, FALSE, "ok", {})
    ELSE LET userId == token.s
             s == deleteSession(c, userId, oc1)
             c1 == [c EXCEPT !.store = s.store]
             c2 == [c EXCEPT !.store = del(c1, legacyKey(userId), oc2).store]
             c3 == [c EXCEPT !.store = del(c2, profileKey(userId), oc3).store]
             st == IF c.isConnected THEN del(c3, healthKey(userId), oc4).store ELSE s.store
         IN  Reply([c EXCEPT !.store = st], NoWrapper, 200, Message(<<"L", "o", "g", "o", "u", "t", " ", "s", "u", "c", "c", "e", "s", "s", "f", "u", "l">>),
                   d, JsEq(s.ret, JsBool(TRUE)), "ok", {})

-----------------------------------------------------------------------------
(* The server in operation: requests arrive one at a time, the connection  *)
(* events of the cache client come when they come, also between the        *)
(* middleware of a request and its handler.  A backend that fails does so  *)
(* for every command of a request (oc).                                    *)

\* The client as the handlers would see it with the flag down.
Off(c) == [c EXCEPT !.isConnected = FALSE]

\* A request has been answered, or the process has exited on it: the store
\* and the collection the handler leaves, and how it went.  ok: the status
\* was 2xx; crashed: the process exited; invalidated: the invalidation ran;
\* covered: the flag was up when the request came and when it ended and the
\* cache held no entry for it; same: status and body are those the same
\* request gets with the flag down (ref).  With the process the client
\* object and its flag are gone.
Served(r, ref, flagAtEntry, miss) ==
    /\ store' = r.store
    /\ db' = r.db
    /\ req' = NoReq
    /\ resp' = [ok |-> (r.status >= 200 /\ r.status < 300),
                crashed |-> r.crashed, invalidated |-> r.invalidated,
                covered |-> (flagAtEntry /\ isConnected /\ miss),
                same |-> (r.status = ref.status /\ JsEq(r.body, ref.body))]
    /\ alive' = ~r.crashed
    /\ client' = (client /\ ~r.crashed)
    /\ isConnected' = (isConnected /\ ~r.crashed)
    /\ UNCHANGED <<redisUrl, started, now, lastCall, puts>>
    /\ UNCHANGED <<cipherVars, callVars>>

\* A request has passed its middleware and waits for its handler.
Passed(route, userId, wrapper, body, miss) ==
    /\ req' = [route |-> route, user |-> userId, wrapper |-> wrapper, body |-> body,
               flagAtEntry |-> isConnected, miss |-> miss]
    /\ UNCHANGED <<alive, db, resp, hist>>
    /\ UNCHANGED clientVars
    /\ UNCHANGED <<cipherVars, callVars>>

\* What a login or a registration that handed out a token leaves in hist:
\* the token, the instant, the flag, whether setSession returned true and
\* whether it replaced another token.
LoggedIn(userId, r) ==
    [some |-> TRUE, token |-> Jwt(userId, now), at |-> now,
     connected |-> isConnected, wrote |-> r.applied,
     over |-> /\ r.applied
              /\ sessionKey(userId) \in DOMAIN store
              /\ ~JsEq(store[sessionKey(userId)].text, Jwt(userId, now)),
     out |-> FALSE, deleted |-> FALSE]

Problems == {"none", "validation", "weak"}

Register(Ids) ==
    /\ alive
    /\ req = NoReq
    /\ \E userId \in Ids, problem \in Problems,
          oc \in Outcomes :
        LET r == register(C, db, userId, problem, oc, oc, oc)
            \* no command is issued: one outcome is enough
            idle == problem # "none" \/ db[userId].registered \/ Closed(C)
            ref == register(Off(C), db, userId, problem, "ok", "ok", "ok")
        IN  /\ idle => oc = "ok"
            /\ Served(r, ref, isConnected, TRUE)
            /\ hist' = IF r.status = 201
                       THEN [hist EXCEPT ![userId] = LoggedIn(userId, r)]
                       ELSE hist

Login(Ids) ==
    /\ alive
    /\ req = NoReq
    /\ \E userId \in Ids, isPasswordValid \in BOOLEAN,
          oc \in Outcomes :
        LET r == login(C, db, userId, isPasswordValid, oc, oc, oc)
            \* no command is issued: one outcome is enough
            idle == ~isPasswordValid \/ ~db[userId].registered \/ Closed(C)
            ref == login(Off(C), db, userId, isPasswordValid, "ok", "ok", "ok")
        IN  /\ idle => oc = "ok"
            /\ Served(r, ref, isConnected, TRUE)
            /\ hist' = IF r.status = 200
                       THEN [hist EXCEPT ![userId] = LoggedIn(userId, r)]
                       ELSE hist

\* The tokens a client can send: none, something that is no token, or the
\* token a login or a registration handed out.
Tokens == <<JsUndefined, JsStr(<<"x">>)>>

Logout(Ids) ==
    /\ alive
    /\ req = NoReq
    /\ \E userId \in Ids, t \in 0..Len(Tokens),
          oc \in Outcomes :
        /\ t = 0 => hist[userId].some
        /\ (t # 0 \/ Closed(C)) => oc = "ok"    \* no command is issued
        /\ LET token == IF t = 0 THEN hist[userId].token ELSE Tokens[t]
               r == logout(C, db, token, oc, oc, oc, oc)
               ref == logout(Off(C), db, token, "ok", "ok", "ok", "ok")
           IN  /\ Served(r, ref, isConnected, TRUE)
               /\ hist' = IF r.status = 200
                          THEN [hist EXCEPT ![userId].out = TRUE,
                                            ![userId].deleted = r.applied]
                          ELSE hist

\* GET /metrics up to the handler.  The auth middleware has found the user
\* of the token.
GetMetricsEnter(Ids) ==
    /\ alive
    /\ req = NoReq
    /\ \E userId \in Ids, oc \in Outcomes :
        /\ db[userId].registered
        /\ LET cacheKey == healthCacheKey(<<"m", "e", "t", "r", "i", "c", "s">>, userId)
               m == cache(C, cacheKey, oc)
               miss == cacheKey \notin DOMAIN store /\ healthKey(userId) \notin DOMAIN store
           IN  IF m.hit
               THEN /\ Served(Reply(C, NoWrapper, 200, m.data, db, FALSE, "ok", {}),
                              getMetrics(Off(C), "none", db, userId, "ok", "ok", "ok"),
                              isConnected, miss)
                    /\ UNCHANGED hist
               ELSE Passed("GET /metrics", userId, m.wrapper, JsUndefined, miss)

GetMetricsHandle ==
    /\ alive
    /\ req.route = "GET /metrics"
    /\ \E oc \in Outcomes :
        /\ Served(getMetrics(C, req.wrapper, db, req.user, oc, oc, oc),
                  getMetrics(Off(C), "none", db, req.user, "ok", "ok", "ok"),
                  req.flagAtEntry, req.miss)
        /\ UNCHANGED hist

\* The bodies of PUT /metrics: both fields, one field, a weight out of range.
MetricsBodies ==
    <<JsObj([height |-> JsNum(175), weight |-> JsNum(70)]),
      JsObj([weight |-> JsNum(80)]),
      JsObj([weight |-> JsNum(10)])>>

\* PUT /metrics up to the handler.
PutMetricsEnter(Ids) ==
    /\ alive
    /\ req = NoReq
    /\ \E userId \in Ids, b \in DOMAIN MetricsBodies :
        /\ db[userId].registered
        /\ Passed("PUT /metrics", userId, invalidateCache(C, userId), MetricsBodies[b], TRUE)

PutMetricsHandle ==
    /\ alive
    /\ req.route = "PUT /metrics"
    /\ \E reached \in SUBSET (Invalidated(PutPatterns, req.user) \cap DOMAIN store) :
        /\ Served(putMetrics(C, req.wrapper, db, req.user, req.body, reached),
                  putMetrics(Off(C), "none", db, req.user, req.body, {}),
                  req.flagAtEntry, req.miss)
        /\ UNCHANGED hist

\* Days pass: half the life of a session at a time.
LongStep == SessionTtl \div 2
MaxLongTicks == 2

LongTick ==
    /\ now < MaxLongTicks * LongStep
    /\ now' = now + LongStep
    /\ store' = Purge(store, now + LongStep)
    /\ UNCHANGED <<redisUrl, started, client, isConnected, lastCall, puts>>
    /\ UNCHANGED <<cipherVars, routeVars, callVars>>

\* Sessions: registration, login and logout of two users over seven days.
SessionNext ==
    \/ Connect \/ OnReady \/ OnError \/ LongTick
    \/ Register(UserIds) \/ Login(UserIds) \/ Logout(UserIds)

SpecSession == ClientStart /\ [][SessionNext]_vars

\* The health profile of one user who is registered.
MetricsStart ==
    /\ ClientInit
    /\ CipherInit
    /\ alive = TRUE
    /\ db = [u \in UserIds |-> IF u \in OneId THEN NewUser ELSE NoUser]
    /\ req = NoReq
    /\ resp = NoResp
    /\ hist = [u \in UserIds |-> NoLogin]

MetricsNext ==
    \/ Connect \/ OnReady \/ OnError
    \/ GetMetricsEnter(OneId) \/ GetMetricsHandle
    \/ PutMetricsEnter(OneId) \/ PutMetricsHandle

SpecMetrics == MetricsStart /\ [][MetricsNext]_vars

-----------------------------------------------------------------------------
(* Claims about the routes *)

\* The client with the connection up, as a later request finds it.
Up == [client |-> TRUE, isConnected |-> TRUE, store |-> store, now |-> now]
UpNext == [client |-> TRUE, isConnected |-> TRUE, store |-> store', now |-> now']

\* C6: the cached profile is invalidated on mutation.  A PUT /metrics of
\* a user that is answered with a 2xx status while the flag is up leaves no
\* healthData entry of that user: getHealthData returns null.
C6_ProfileInvalidated ==
    [][ ( /\ req.route = "PUT /metrics"
          /\ req' = NoReq
          /\ resp'.ok
          /\ isConnected )
        => JsEq(getHealthData(UpNext, req.user, "ok").ret, JsNull) ]_vars

\* The keys the domain "health" stands for: the profile-cache entry and the
\* known health-derived keys of the user.
HealthDomain(userId) ==
    {healthKey(userId)} \cup Invalidated(<< <<"h", "e", "a", "l", "t", "h">> >>, userId)

\* C7: invalidation scope.  When the invalidation of PUT /metrics has run
\* for a user, the profile-cache entry and the known health-derived keys of
\* that user are gone and every other entry is as it was.
C7_InvalidationScope ==
    [][ ( /\ req.route = "PUT /metrics"
          /\ req' = NoReq
          /\ resp'.invalidated )
        => /\ \A k \in HealthDomain(req.user) : k \notin DOMAIN store'
           /\ \A k \in (DOMAIN store) \ HealthDomain(req.user) :
                 k \in DOMAIN store' /\ store'[k] = store[k] ]_vars

\* The session entry of a user as getSession returns it with the
\* connection up.
SessionOf(userId) == getSession(Up, userId, "ok").ret

\* The store holds at most one entry session:<id> per user.
OneEntryEach ==
    \A u \in UserIds :
        Cardinality({ k \in RedisKeys(store, sessionKey(<<>>)) : k = sessionKey(u) }) <= 1

\* A session entry gets a new value only by a login or a registration of
\* its user whose setSession went through.
C8_WriteFrame ==
    \A v \in UserIds :
        ( /\ sessionKey(v) \in DOMAIN store'
          /\ ~JsEq(RedisGet(store', sessionKey(v)), RedisGet(store, sessionKey(v))) )
        => /\ hist'[v] # hist[v]
           /\ hist'[v].wrote
           /\ ~hist'[v].out

\* C8 as stated: single session per identity.  For every user whose last
\* login or registration was answered with the flag up, with no logout and
\* less than the time to live since, getSession returns the token of that
\* login; there is one entry per user, and the entries of the other users
\* stay as they are.
C8_LatestToken ==
    /\ [](OneEntryEach
          /\ \A u \in UserIds :
               ( /\ hist[u].some
                 /\ hist[u].connected
                 /\ ~hist[u].out
                 /\ now < hist[u].at + SessionTtl )
               => JsEq(SessionOf(u), hist[u].token))
    /\ [][C8_WriteFrame]_vars

\* C8 amended: the same for every user whose last login or registration
\* was answered with the flag up and whose SETEX went through.
C8_LatestWrittenToken ==
    /\ [](OneEntryEach
          /\ \A u \in UserIds :
               ( /\ hist[u].some
                 /\ hist[u].connected
                 /\ hist[u].wrote
                 /\ ~hist[u].out
                 /\ now < hist[u].at + SessionTtl )
               => JsEq(SessionOf(u), hist[u].token))
    /\ [][C8_WriteFrame]_vars

\* C8 witness: a later login of a user has replaced the token of an earlier
\* one, and the other user's session is still there.
C8_Witness ==
    \E u \in UserIds, v \in UserIds :
        /\ u # v
        /\ hist[u].over
        /\ hist[u].at > 0
        /\ ~hist[u].out
        /\ JsEq(SessionOf(u), hist[u].token)
        /\ hist[v].wrote
        /\ hist[v].at = 0
        /\ JsEq(SessionOf(v), hist[v].token)

\* A step that is a logout of the user answered with 200 while the flag is
\* up.
LogoutStep(u) ==
    /\ hist'[u] # hist[u]
    /\ hist'[u].out
    /\ isConnected

\* After the step the user has no session, and the sessions of the other
\* users are as they were.
LogoutEffect(u) ==
    /\ JsEq(getSession(UpNext, u, "ok").ret, JsNull)
    /\ \A v \in UserIds \ {u} :
          JsEq(RedisGet(store', sessionKey(v)), RedisGet(store, sessionKey(v)))

\* C9 as stated: session lifecycle.  A session entry of a user exists only
\* after a login or a registration of that user, before any logout of the
\* user answered with success and before the time to live has run out; a
\* logout answered with success while the flag is up leaves no session of
\* the user and the sessions of the others as they were.
C9_SessionLifecycle ==
    /\ [](\A u \in UserIds :
            sessionKey(u) \in DOMAIN store
            => /\ hist[u].some
               /\ ~hist[u].out
               /\ now < hist[u].at + SessionTtl)
    /\ [][\A u \in UserIds : LogoutStep(u) => LogoutEffect(u)]_vars

\* C9 amended: the logout that ends the life of the entry is one whose DEL
\* went through (deleteSession returned true).
C9_SessionLifecycleDeleted ==
    /\ [](\A u \in UserIds :
            sessionKey(u) \in DOMAIN store
            => /\ hist[u].some
               /\ ~(hist[u].out /\ hist[u].deleted)
               /\ now < hist[u].at + SessionTtl)
    /\ [][\A u \in UserIds : (LogoutStep(u) /\ hist'[u].deleted) => LogoutEffect(u)]_vars

\* C9 witness: a login of a user wrote the session, a logout with the flag
\* up deleted it before its time to live was over, and the other user's
\* session stays.
C9_Witness ==
    \E u \in UserIds, v \in UserIds :
        /\ u # v
        /\ hist[u].wrote
        /\ hist[u].out
        /\ hist[u].deleted
        /\ now < hist[u].at + SessionTtl
        /\ JsEq(SessionOf(u), JsNull)
        /\ hist[v].wrote
        /\ ~hist[v].out
        /\ JsEq(SessionOf(v), hist[v].token)

\* C10: cache outages are invisible.  A request that found the flag up and
\* no entry of its own in the cache gets the status and the body it gets
\* with the flag down.
C10_OutageInvisible ==
    resp.covered => (~resp.crashed /\ resp.same)


\* The status the handler of PUT /metrics hands to res.status for the
\* request in flight.
PutStatus == putMetrics(Off(C), "none", db, req.user, req.body, {}).status

PutEntered == req = NoReq /\ req'.route = "PUT /metrics"
PutHandled == req.route = "PUT /metrics" /\ req' = NoReq

\* C11: invalidation never runs speculatively.  The middleware of
\* PUT /metrics deletes nothing on the way to the handler, a key leaves the
\* store in the handler's step only through the invalidation, and the
\* invalidation does not run and the store stays as it is when the handler's
\* status is outside 200..299.
C11_NeverSpeculative ==
    [][ /\ PutEntered => (store' = store /\ resp' = resp)
        /\ PutHandled =>
             /\ ((DOMAIN store) \ (DOMAIN store') # {}) => resp'.invalidated
             /\ ~(PutStatus >= 200 /\ PutStatus < 300)
                => (~resp'.invalidated /\ store' = store) ]_vars

\* C11 witness: a PUT /metrics with a weight out of range went through the
\* wrapper of invalidateCache while the profile of the user was cached; the
\* invalidation did not run and the entry is still there.
C11_Witness ==
    /\ resp.crashed
    /\ ~resp.invalidated
    /\ ~resp.ok
    /\ healthKey(<<"a", "1">>) \in DOMAIN store

-----------------------------------------------------------------------------
(* Claims about the result memo *)

\* The conditions part of a key as the naming rule gives it: the sorted
\* names joined by commas, "none" for an empty collection.
ConditionsOrNone(diseaseTypes) ==
    IF diseaseTypes.t = "arr" /\ Len(diseaseTypes.a) > 0
    THEN join(sort([i \in 1..Len(diseaseTypes.a) |-> diseaseTypes.a[i].s]), <<",">>)
    ELSE IF diseaseTypes.t = "str" /\ Len(diseaseTypes.s) > 0
    THEN diseaseTypes.s
    ELSE <<"n", "o", "n", "e">>

\* C12: memoized-result key naming.  Every entry setCaloricResult has
\* stored lies under calorie:<bmiBucket>:<conditions>, the conditions being
\* the sorted names joined by commas, or "none" when there is no condition,
\* and getCaloricResult finds it back under that name.
C12_KeyNaming ==
    \A k \in DOMAIN puts :
        puts[k].kind = "calorie"
        => /\ k = <<"c", "a", "l", "o", "r", "i", "e", ":">> \o HalvesToString(bmiRangeHalves(puts[k].bmi))
                    \o <<":">> \o ConditionsOrNone(puts[k].diseaseTypes)
           /\ k \in DOMAIN store

\* C13: hitCount increments on every read that finds the key.  A
\* getCaloricResult that returns a stored result leaves the hitCount of the
\* entry one greater than it was.
C13_HitCounted ==
    [][ ( /\ lastCall' # lastCall
          /\ lastCall'.op = "getCaloricResult"
          /\ ~lastCall'.closed
          /\ ~lastCall'.failed
          /\ ~JsEq(lastCall'.ret, JsNull) )
        => HitsOf(store', calorieKey(lastCall'.args[1], lastCall'.args[2]))
           = HitsOf(store, calorieKey(lastCall'.args[1], lastCall'.args[2])) + 1 ]_vars

\* The one key the memo is called with when every operation is exercised.
OneKey == calorieKey(Bmi(249, 10), JsArr(<<Asthma>>))

\* A step in which setCaloricResult returned true.
CaloricPut ==
    /\ lastCall'.op = "setCaloricResult"
    /\ JsEq(lastCall'.ret, JsBool(TRUE))
    /\ store' # store
    /\ now' = now

\* C14: setCaloricResult preserves and increments the counter.  A put that
\* went through stores hitCount 1 on an absent key and one more than the
\* stored hitCount on a present one, with the value of this put, and the
\* entry expires the time to live of this put from now.
C14_CounterKept ==
    [][ CaloricPut =>
          /\ OneKey \in DOMAIN store'
          /\ HitsOf(store', OneKey) = HitsOf(store, OneKey) + 1
          /\ Prop(TextValue(store'[OneKey].text), "result") \in OneResult
          /\ store'[OneKey].exp = now + CalorieTtl ]_vars

\* C14 witness: a second put, made after some time, has raised the counter
\* to 2 and set the expiry anew.
C14_Witness ==
    /\ lastCall.op = "setCaloricResult"
    /\ JsEq(lastCall.ret, JsBool(TRUE))
    /\ OneKey \in DOMAIN store
    /\ HitsOf(store, OneKey) = 2
    /\ now > 0
    /\ store[OneKey].exp = now + CalorieTtl

-----------------------------------------------------------------------------
(* setCaloricResult between its awaits.  The call runs up to                *)
(* `await this.client.get(cacheKey)`, which issues GET; when the reply is   *)
(* there it computes hitCount and runs up to `await this.client.setEx(...)`, *)
(* which issues SETEX; the commands of one connection are carried out in    *)
(* the order they were issued.  Other calls run between the two.            *)

\* resultData as built before the first await, with the hitCount set after it.
resultData(bmi, diseaseTypes, calorieData, at, hits) ==
    JsObj([bmiRange |-> HalvesNum(bmiRangeHalves(bmi)),
           diseases |-> SortedInPlace(diseaseTypes),
           result |-> calorieData,
           cachedAt |-> toISOString(at),
           hitCount |-> JsNum(hits)])

\* if (existing) { resultData.hitCount = (JSON.parse(existing).hitCount || 0) + 1 }
hitCountAfter_twice(existing) ==
    IF Truthy(existing) THEN NextHitCount(JSONparse(existing).value) + 1 ELSE 1
hitCountAfter(existing) ==
    IF Truthy(existing) THEN NextHitCount(JSONparse(existing).value) ELSE 1

\* A call that has returned.
Returned(v) == [pc |-> "done", resultData |-> JsUndefined, ret |-> v]

\* A writer calls setCaloricResult: the guard, GET, the hit count.
RaceCall(Ws) ==
    /\ started
    /\ \E w \in Ws, calorieData \in CallResults, oc1 \in Outcomes :
        /\ calls.of[w].pc = "idle"
        /\ LET existing == RedisGet(store, OneKey)
           IN  calls' = [calls EXCEPT !.of[w] =
                  IF Closed(C) \/ oc1 = "fail" \/ ParseOrNull(existing).threw
                  THEN Returned(JsBool(FALSE))
                  ELSE [pc |-> "got",
                        resultData |-> resultData(Bmi(249, 10), JsArr(<<Asthma>>), calorieData,
                                                  now, hitCountAfter(existing)),
                        ret |-> JsUndefined]]
    /\ UNCHANGED <<cipherVars, clientVars, routeVars, probe, lastEvent>>

\* The reply to GET is there: SETEX of resultData, and the call returns.
RaceResume(Ws) ==
    /\ started
    /\ \E w \in Ws, oc2 \in Outcomes :
        /\ calls.of[w].pc = "got"
        /\ IF oc2 = "fail"
           THEN /\ calls' = [calls EXCEPT !.of[w] = Returned(JsBool(FALSE))]
                /\ UNCHANGED store
           ELSE /\ store' = RedisSetEx(store, now, OneKey, CalorieTtl,
                                       JSONstringify(calls.of[w].resultData)).value
                /\ calls' = [calls EXCEPT
                               !.of[w] = [pc |-> "done", resultData |-> calls.of[w].resultData,
                                          ret |-> JsBool(TRUE)],
                               !.last = Prop(calls.of[w].resultData, "result")]
    /\ UNCHANGED <<redisUrl, started, client, isConnected, now, lastCall, puts>>
    /\ UNCHANGED <<cipherVars, routeVars, probe, lastEvent>>

\* Every call has returned; the next batch starts from the count stored.
RaceReset ==
    /\ \A w \in Writers : calls.of[w].pc # "got"
    /\ \E w \in Writers : calls.of[w].pc = "done"
    /\ HitsOf(store, OneKey) < MaxHits
    /\ calls' = [NoCalls EXCEPT !.before = HitsOf(store, OneKey)]
    /\ UNCHANGED <<cipherVars, clientVars, routeVars, probe, lastEvent>>

RaceNext ==
    \/ Connect \/ OnReady \/ OnError
    \/ RaceCall(Writers) \/ RaceResume(Writers) \/ RaceReset

SpecRace == ClientStart /\ [][RaceNext]_vars

\* The calls of the batch that have returned, and those that returned true.
Done == { w \in Writers : calls.of[w].pc = "done" }
Wrote == { w \in Done : JsEq(calls.of[w].ret, JsBool(TRUE)) }

\* Two calls or more were made, all have returned, all returned true.
AllWrote ==
    /\ \A w \in Writers : calls.of[w].pc # "got"
    /\ Cardinality(Done) >= 2
    /\ Wrote = Done

\* C15: the accepted hitCount race.  When n >= 2 interleaved calls for one
\* key have all completed, the entry is the resultData of one of them, its
\* value is that of the call whose SETEX came last, and its hitCount is at
\* least h + 1 and at most h + n, h being the count before the calls.
C15_LastWriterWins ==
    AllWrote =>
        /\ OneKey \in DOMAIN store
        /\ \E w \in Wrote : JsEq(store[OneKey].text, JSONstringify(calls.of[w].resultData))
        /\ JsEq(Prop(TextValue(store[OneKey].text), "result"), calls.last)
        /\ HitsOf(store, OneKey) >= calls.before + 1
        /\ HitsOf(store, OneKey) <= calls.before + Cardinality(Done)

\* C15 witness: three calls on an entry that had been hit once all returned
\* true and increments were lost.
C15_Witness ==
    /\ AllWrote
    /\ Cardinality(Done) = MaxWriters
    /\ calls.before = 1
    /\ HitsOf(store, OneKey) < calls.before + Cardinality(Done)

-----------------------------------------------------------------------------
(* POST /calorie-recommendation with no OpenAI key configured: the         *)
(* rule-based recommendation behind the result memo.  A user is [weight,   *)
(* height, systolic, diastolic, sugar, diseases], 0 for a metric that was  *)
(* never given, diseases a sequence of [name, diagnosed].                  *)

\* userSchema.methods.calculateBMI: weight / (height / 100) ^ 2, the exact
\* quotient (null without height or weight is the 400 of the route).
calculateBMI(user) == Bmi(user.weight * 10000, user.height * user.height)

\* bmi.toFixed(1)
toFixed1(bmi) ==
    LET tenths == (20 * bmi.num + bmi.den) \div (2 * bmi.den)
    IN  NatToString(tenths \div 10) \o <<".">> \o NatToString(tenths % 10)

\* getBMICategory of the recommendation routes
BMICategoryText(bmi) ==
    IF 2 * bmi.num < 37 * bmi.den THEN <<"(", "U", "n", "d", "e", "r", "w", "e", "i", "g", "h", "t", ")">>
    ELSE IF bmi.num < 25 * bmi.den THEN <<"(", "N", "o", "r", "m", "a", "l", " ", "w", "e", "i", "g", "h", "t", ")">>
    ELSE IF bmi.num < 30 * bmi.den THEN <<"(", "O", "v", "e", "r", "w", "e", "i", "g", "h", "t", ")">>
    ELSE <<"(", "O", "b", "e", "s", "e", ")">>

\* user.diseases.filter(d => d.diagnosed).map(d => d.name)
activeDiseases(user) ==
    JsArr(SelectSeq([i \in 1..Len(user.diseases) |->
                        IF user.diseases[i].diagnosed THEN JsStr(user.diseases[i].name)
                        ELSE JsNull],
                    LAMBDA x : x.t = "str"))

\* Math.round((10 * weight + 6.25 * height - 5 * 30) * 1.5), then the
\* adjustment for the BMI.
dailyCalories(user) ==
    LET eighths == 120 * user.weight + 75 * user.height - 1800
        rounded == (eighths + 4) \div 8
        bmi == calculateBMI(user)
    IN  IF 2 * bmi.num < 37 * bmi.den THEN rounded + 200
        ELSE IF bmi.num > 25 * bmi.den THEN rounded - 300
        ELSE rounded

\* The advice of the switch on disease.name.toLowerCase().
Hypertension == <<"H", "y", "p", "e", "r", "t", "e", "n", "s", "i", "o", "n">>
adjustments(user) ==
    LET names == activeDiseases(user).a
    IN  [i \in 1..Len(SelectSeq(names, LAMBDA x : x.s = Hypertension)) |->
            JsStr(<<"L", "i", "m", "i", "t", " ", "s", "o", "d", "i", "u", "m", " ", "i", "n", "t", "a", "k", "e", " ", "t", "o", " ", "l", "e", "s", "s", " ", "t", "h", "a", "n", " ", "2", "3", "0", "0", "m", "g", " ", "p", "e", "r", " ", "d", "a", "y">>)]

\* value || 'Not provided'
OrNotProvided(n) == IF n = 0 THEN <<"N", "o", "t", " ", "p", "r", "o", "v", "i", "d", "e", "d">> ELSE NatToString(n)

\* generateFallbackRecommendation(user): the calories and the content, the
\* content as the parts the template puts into its fixed text.
generateFallbackRecommendation(user) ==
    JsObj([content |-> JsObj([calories |-> JsNum(dailyCalories(user)),
                              bmi |-> JsStr(toFixed1(calculateBMI(user))),
                              category |-> JsStr(BMICategoryText(calculateBMI(user))),
                              bloodPressure |-> JsStr(OrNotProvided(user.systolic) \o <<"/">>
                                                      \o OrNotProvided(user.diastolic)),
                              bloodSugar |-> JsStr(OrNotProvided(user.sugar)),
                              adjustments |-> JsArr(adjustments(user))]),
           calories |-> JsNum(dailyCalories(user)),
           reasoning |-> JsStr(<<"R", "u", "l", "e", "-", "b", "a", "s", "e", "d", " ", "c", "a", "l", "c", "u", "l", "a", "t", "i", "o", "n", " ", "u", "s", "i", "n", "g", " ", "B", "M", "R", " ", "a", "n", "d", " ", "h", "e", "a", "l", "t", "h", " ", "p", "r", "o", "f", "i", "l", "e", " ", "a", "d", "j", "u", "s", "t", "m", "e", "n", "t", "s">>)])

\* The handler answers with the cached recommendation when getCaloricResult
\* finds one, else with the rule-based one, which it stores for two hours.
calorieRecommendation(c, user, oc1, oc2, oc3) ==
    IF user.height = 0 \/ user.weight = 0
    THEN [status |-> 400, fromCache |-> FALSE, calories |-> JsUndefined,
          content |-> JsUndefined, store |-> c.store]
    ELSE LET bmi == calculateBMI(user)
             cachedResult == getCaloricResult(c, bmi, activeDiseases(user), oc1).ret
             fallbackRecommendation == generateFallbackRecommendation(user)
         IN  IF Truthy(cachedResult)
             THEN [status |-> 200, fromCache |-> TRUE,
                   calories |-> Prop(cachedResult, "calories"),
                   content |-> Prop(cachedResult, "content"), store |-> c.store]
             ELSE [status |-> 200, fromCache |-> FALSE,
                   calories |-> Prop(fallbackRecommendation, "calories"),
                   content |-> Prop(fallbackRecommendation, "content"),
                   store |-> setCaloricResult(c, bmi, activeDiseases(user),
                                              fallbackRecommendation, CalorieTtl, oc2, oc3).store]

\* The users that ask: weights and heights within and across a BMI bucket,
\* with and without a blood pressure and a diagnosis, and one without weight.
Weights == {0, 60, 70, 72}
Heights == {170, 175}
Pressures == {0, 120}
DiseaseLists == << <<>>, <<[name |-> Hypertension, diagnosed |-> TRUE]>> >>
Profiles ==
    { [weight |-> w, height |-> h, systolic |-> s, diastolic |-> 0, sugar |-> 0,
       diseases |-> DiseaseLists[d]] :
         w \in Weights, h \in Heights, s \in Pressures, d \in DOMAIN DiseaseLists }

Recommend ==
    /\ alive
    /\ \E user \in Profiles, oc \in Outcomes :
        LET r == calorieRecommendation(C, user, oc, oc, oc)
        IN  /\ Cardinality(DOMAIN r.store) <= MaxEntries
            /\ store' = r.store
            /\ probe' = [op |-> "calorie-recommendation", arg |-> user,
                         ret |-> [status |-> r.status, fromCache |-> r.fromCache,
                                  calories |-> r.calories, content |-> r.content]]
    /\ UNCHANGED <<redisUrl, started, client, isConnected, now, lastCall, puts>>
    /\ UNCHANGED <<cipherVars, routeVars, calls, lastEvent>>

RecommendNext == Connect \/ OnReady \/ OnError \/ Recommend

SpecRecommend == ClientStart /\ [][RecommendNext]_vars

\* C16: all writers for one memoized key compute the same result.  The
\* recommendation a user is given, from the cache or not, is the one the
\* rule-based system computes for that user: nothing in it comes from the
\* user who filled the cache.
C16_SameResultPerKey ==
    (probe.op = "calorie-recommendation" /\ probe.ret.status = 200) =>
        /\ JsEq(probe.ret.calories, Prop(generateFallbackRecommendation(probe.arg), "calories"))
        /\ JsEq(probe.ret.content, Prop(generateFallbackRecommendation(probe.arg), "content"))

-----------------------------------------------------------------------------
(* PasswordEncryption.validatePasswordStrength, called directly on          *)
(* passwords typed piece by piece.                                          *)

\* The elements of a sequence.
Range(s) == { s[i] : i \in 1..Len(s) }

UppercaseLetters == <<"A", "B", "C", "D", "E", "F", "G", "H", "I", "J", "K", "L", "M", "N", "O", "P", "Q", "R", "S", "T", "U", "V", "W", "X", "Y", "Z">>
LowercaseLetters == <<"a", "b", "c", "d", "e", "f", "g", "h", "i", "j", "k", "l", "m", "n", "o", "p", "q", "r", "s", "t", "u", "v", "w", "x", "y", "z">>
Digits == <<"0", "1", "2", "3", "4", "5", "6", "7", "8", "9">>
Symbols == <<"!", "@", "#", "$", "%", "^", "&", "*", "(", ")", "_", "+", "-", "=", "[", "]", "{", "}", "|", ";", ":", ",", ".", "<", ">", "?">>

\* String.prototype.toLowerCase
toLowerCase(s) ==
    [i \in 1..Len(s) |->
        IF s[i] \in Range(UppercaseLetters)
        THEN LowercaseLetters[CHOOSE k \in 1..Len(UppercaseLetters) : UppercaseLetters[k] = s[i]]
        ELSE s[i]]

\* /[...]/.test(password) for a character class
HasOneOf(password, class) == \E i \in 1..Len(password) : password[i] \in Range(class)

commonPatterns ==
    << <<"1", "2", "3", "4", "5", "6">>, <<"p", "a", "s", "s", "w", "o", "r", "d">>, <<"q", "w", "e", "r", "t", "y">>, <<"a", "b", "c", "1", "2", "3">>,
       <<"1", "1", "1", "1", "1", "1">>, <<"0", "0", "0", "0", "0", "0">>, <<"a", "d", "m", "i", "n">>, <<"l", "o", "g", "i", "n">> >>

\* The patterns that match the lower-cased password.
Matching(password) ==
    { p \in 1..Len(commonPatterns) : includes(toLowerCase(password), commonPatterns[p]) }

\* The loop over commonPatterns: the first match takes one off the score,
\* not below 0, and ends the loop.
afterPatterns_each(score, password) == Max(0, score - Cardinality(Matching(password)))
afterPatterns(score, password) ==
    IF Matching(password) # {} THEN Max(0, score - 1) ELSE score

validatePasswordStrength(password) ==
    LET criteria == [minLength |-> Len(password) >= 8,
                     hasUppercase |-> HasOneOf(password, UppercaseLetters),
                     hasLowercase |-> HasOneOf(password, LowercaseLetters),
                     hasNumbers |-> HasOneOf(password, Digits),
                     hasSymbols |-> HasOneOf(password, Symbols),
                     noCommonPatterns |-> Matching(password) = {}]
        score0 == (IF criteria.minLength THEN 1 ELSE 0)
                  + (IF criteria.hasUppercase THEN 1 ELSE 0)
                  + (IF criteria.hasLowercase THEN 1 ELSE 0)
                  + (IF criteria.hasNumbers THEN 1 ELSE 0)
                  + (IF criteria.hasSymbols THEN 1 ELSE 0)
        score == afterPatterns(score0, password)
    IN  [isValid |-> score >= 3,
         strength |-> IF score >= 4 THEN "strong" ELSE IF score >= 3 THEN "medium" ELSE "weak",
         score |-> score,
         criteria |-> criteria]

\* The pieces a password is typed from, and how many of them at most.
Pieces ==
    << <<"A">>, <<"b">>, <<"1">>, <<"!">>, <<" ">>, <<"p", "a", "s", "s", "w", "o", "r", "d">>, <<"1", "2", "3", "4", "5", "6">>, <<"A", "D", "M", "I", "N">>,
       <<"a", "b", "c", "d", "e", "f", "g", "h">>, <<"A", "b", "c", "d", "e", "f", "1", "!">> >>
MaxPieces == 3

RECURSIVE Concat(_)
Concat(parts) == IF parts = <<>> THEN <<>> ELSE Head(parts) \o Concat(Tail(parts))

\* One more piece is typed and the strength of the password is asked for.
ValidateStrength ==
    /\ probe.op \in {"none", "validatePasswordStrength"}
    /\ Len(probe.arg) < MaxPieces
    /\ \E p \in DOMAIN Pieces :
        probe' = [op |-> "validatePasswordStrength",
                  arg |-> Append(probe.arg, Pieces[p]),
                  ret |-> validatePasswordStrength(Concat(Append(probe.arg, Pieces[p])))]
    /\ UNCHANGED <<cipherVars, clientVars, routeVars, calls, lastEvent>>

StrengthNext == ValidateStrength

SpecStrength == CipherStart /\ [][StrengthNext]_vars

\* The number of the five criteria a password meets, and whether a
\* deny-listed text occurs in it.
Satisfied(password) ==
    Cardinality({ c \in {"minLength", "hasUppercase", "hasLowercase", "hasNumbers", "hasSymbols"} :
        CASE c = "minLength" -> Len(password) >= 8
          [] c = "hasUppercase" -> \E i \in 1..Len(password) : password[i] \in Range(UppercaseLetters)
          [] c = "hasLowercase" -> \E i \in 1..Len(password) : password[i] \in Range(LowercaseLetters)
          [] c = "hasNumbers" -> \E i \in 1..Len(password) : password[i] \in Range(Digits)
          [] c = "hasSymbols" -> \E i \in 1..Len(password) : password[i] \in Range(Symbols) })
DenyListed(password) ==
    \E p \in 1..Len(commonPatterns) : includes(toLowerCase(password), commonPatterns[p])

\* C17: validatePasswordStrength equals the reference scoring.  The score is
\* the number of criteria met minus one when a deny-listed text occurs,
\* noCommonPatterns is false exactly then, the strength is weak below 3,
\* medium at 3 and strong from 4, isValid holds from 3; "abcdefgh" is weak
\* with 2 and "Abcdef1!" strong with 5.
C17_ReferenceScoring ==
    probe.op = "validatePasswordStrength" =>
        LET password == Concat(probe.arg)
            r == probe.ret
            expected == Satisfied(password) - (IF DenyListed(password) THEN 1 ELSE 0)
        IN  /\ r.score = expected
            /\ r.criteria.noCommonPatterns = ~DenyListed(password)
            /\ r.strength = (IF expected < 3 THEN "weak" ELSE IF expected = 3 THEN "medium" ELSE "strong")
            /\ r.isValid = (expected >= 3)
            /\ password = <<"a", "b", "c", "d", "e", "f", "g", "h">>
               => (r.score = 2 /\ r.strength = "weak" /\ ~r.isValid)
            /\ password = <<"A", "b", "c", "d", "e", "f", "1", "!">>
               => (r.score = 5 /\ r.strength = "strong" /\ r.isValid)

\* C17 witness: a password with two deny-listed texts that meets four
\* criteria has lost one point and is medium.
C17_Witness ==
    /\ probe.op = "validatePasswordStrength"
    /\ Cardinality(Matching(Concat(probe.arg))) >= 2
    /\ Satisfied(Concat(probe.arg)) = 4
    /\ probe.ret.score = 3
    /\ probe.ret.strength = "medium"
    /\ probe.ret.isValid
    /\ ~probe.ret.criteria.noCommonPatterns

-----------------------------------------------------------------------------
(* PasswordEncryption.generateSecurePassword.  crypto.randomInt(n) is any   *)
(* of a few indices below n; the sort with the random comparator leaves the *)
(* characters in any order.                                                 *)

charset == UppercaseLetters \o LowercaseLetters \o Digits \o Symbols

\* The requested lengths.
MaxLength == 5

\* The indices crypto.randomInt draws within a string of n characters (from
\* 1, as sequences count): the first and the last.
Drawn(n) == {1, n}

\* The indices drawn within charset: one of each class, and the last.
DrawnOfCharset ==
    {1, Len(UppercaseLetters) + 1, Len(UppercaseLetters) + Len(LowercaseLetters) + 1,
     Len(UppercaseLetters) + Len(LowercaseLetters) + Len(Digits) + 1, Len(charset)}

\* for (let i = password.length; i < length; i++) password += charset[...]
fill_exact(password, length, draws) ==
    SubSeq(password \o [i \in 1..Max(0, length - Len(password)) |-> charset[draws[i]]], 1, length)
fill(password, length, draws) ==
    password \o [i \in 1..Max(0, length - Len(password)) |-> charset[draws[i]]]

\* One character of each category, then the rest.
built(length, u, l, n, s, draws) ==
    fill(<<UppercaseLetters[u], LowercaseLetters[l], Digits[n], Symbols[s]>>, length, draws)

\* password.split('').sort(() => crypto.randomInt(3) - 1).join('') with the
\* order the sort arrives at given as a permutation of the positions.
shuffled(password, order) == [i \in 1..Len(password) |-> password[order[i]]]

GeneratePassword ==
    /\ probe.op = "none"
    /\ \E length \in 0..MaxLength,
          u \in Drawn(Len(UppercaseLetters)), l \in Drawn(Len(LowercaseLetters)),
          n \in Drawn(Len(Digits)), s \in Drawn(Len(Symbols)) :
        \E draws \in [1..Max(0, length - 4) -> DrawnOfCharset] :
            LET password == built(length, u, l, n, s, draws)
            IN  \E order \in Permutations(1..Len(password)) :
                    probe' = [op |-> "generateSecurePassword", arg |-> length,
                              ret |-> [built |-> password,
                                       password |-> shuffled(password, order)]]
    /\ UNCHANGED <<cipherVars, clientVars, routeVars, calls, lastEvent>>

GenerateNext == GeneratePassword

SpecGenerate == CipherStart /\ [][GenerateNext]_vars

\* How often a character occurs in a string.
Occurrences(s, ch) == Cardinality({ i \in 1..Len(s) : s[i] = ch })

\* C18: generateSecurePassword returns, whatever the length asked for and
\* whatever is drawn, a string with an uppercase letter, a lowercase letter,
\* a digit and a symbol, made of exactly the characters built, and of
\* max(length, 4) characters.
C18_EveryClass ==
    probe.op = "generateSecurePassword" =>
        LET password == probe.ret.password
        IN  /\ HasOneOf(password, UppercaseLetters)
            /\ HasOneOf(password, LowercaseLetters)
            /\ HasOneOf(password, Digits)
            /\ HasOneOf(password, Symbols)
            /\ Len(password) = Len(probe.ret.built)
            /\ \A ch \in Range(charset) :
                  Occurrences(password, ch) = Occurrences(probe.ret.built, ch)
            /\ Len(password) = Max(probe.arg, 4)

\* C18 witness: a length below 4 was asked for and the four characters came
\* back in another order.
C18_Witness ==
    /\ probe.op = "generateSecurePassword"
    /\ probe.arg < 4
    /\ Len(probe.ret.password) = 4
    /\ probe.ret.password # probe.ret.built

-----------------------------------------------------------------------------
(* Times to live: every kind of entry written and read while hours pass.   *)

\* Half an hour at a time, up to past the longest time to live.
ElapseStep == HealthTtl
MaxElapses == 5

Elapse ==
    /\ now < MaxElapses * ElapseStep
    /\ now' = now + ElapseStep
    /\ store' = Purge(store, now + ElapseStep)
    /\ puts' = [k \in { j \in DOMAIN puts : j \in DOMAIN Purge(store, now + ElapseStep) } |-> puts[k]]
    /\ UNCHANGED <<redisUrl, started, client, isConnected, lastCall>>
    /\ UNCHANGED <<cipherVars, routeVars, callVars>>

\* set(key, data) as cache() calls it on a miss, and get(key).
CallSetKey(Keys) ==
    \E key \in Keys, oc \in Outcomes :
        LET r == set(C, key, CallData[1], DefaultExpire, oc)
        IN  /\ Fits(r)
            /\ Finish("set", <<key>>, r, <<oc>>, NoPuts)

CallGetKey(Keys) ==
    \E key \in Keys, oc \in Outcomes :
        LET r == get(C, key, oc)
        IN  /\ Fits(r)
            /\ Finish("get", <<key>>, r, <<oc>>, NoPuts)

ExpiryNext ==
    \/ Connect \/ OnReady \/ OnError \/ Elapse
    \/ CallSetSession(OneId) \/ CallGetSession(OneId)
    \/ CallSetHealthData(OneId, OnePayload) \/ CallGetHealthData(OneId)
    \/ CallSetCaloricResult(OneBmi, OneDiseases, OneResult)
    \/ CallGetCaloricResult(OneBmi, OneDiseases)
    \/ CallSetKey({PerfKey}) \/ CallGetKey({PerfKey})
    \/ GetMetricsEnter(OneId) \/ GetMetricsHandle

SpecExpiry == MetricsStart /\ [][ExpiryNext]_vars

\* The time to live each kind of entry is written with.
TtlOf(key) ==
    CASE key = OneKey -> CalorieTtl
      [] key = healthKey(<<"a", "1">>) -> HealthTtl
      [] key = healthCacheKey(<<"m", "e", "t", "r", "i", "c", "s">>, <<"a", "1">>) -> MetricsCacheTtl
      [] OTHER -> DefaultExpire

\* The key a read looks under.
ReadKey(call) ==
    CASE call.op = "get" -> call.args[1]
      [] call.op = "getSession" -> sessionKey(call.args[1])
      [] call.op = "getHealthData" -> healthKey(call.args[1])
      [] call.op = "getCaloricResult" -> calorieKey(call.args[1], call.args[2])
      [] OTHER -> <<>>

\* A step that is a read of the client which reached the server.
ReadStep ==
    /\ lastCall'.op \in {"get", "getSession", "getHealthData", "getCaloricResult"}
    /\ ~lastCall'.closed
    /\ ~lastCall'.failed
    /\ UNCHANGED <<started, client, isConnected, store, now, db, req, resp>>

\* C19: TTL expiry.  An entry written with time to live t is in the store
\* only until t seconds after its last write; a read returns a value only
\* from an entry in the store, and null when there is none; GET /metrics
\* that finds no profile entry answers from the users collection.
C19_TtlExpiry ==
    /\ [](\A k \in DOMAIN store : now < store[k].exp /\ store[k].exp <= now + TtlOf(k))
    /\ [][ /\ \A k \in DOMAIN store' :
                (k \notin DOMAIN store \/ store'[k] # store[k])
                => store'[k].exp = now' + TtlOf(k)
           /\ ReadStep =>
                /\ ~JsEq(lastCall'.ret, JsNull) => ReadKey(lastCall') \in DOMAIN store
                /\ ReadKey(lastCall') \notin DOMAIN store => JsEq(lastCall'.ret, JsNull)
           /\ ( /\ req.route = "GET /metrics"
                /\ req' = NoReq
                /\ healthKey(req.user) \notin DOMAIN store )
              => resp'.same ]_vars

\* C19 witness: the profile entry has run out while the request-cache entry
\* written with it, which lives twice as long, is still there, and
\* getHealthData returned null.
C19_Witness ==
    /\ healthCacheKey(<<"m", "e", "t", "r", "i", "c", "s">>, <<"a", "1">>) \in DOMAIN store
    /\ healthKey(<<"a", "1">>) \notin DOMAIN store
    /\ now >= HealthTtl
    /\ lastCall.op = "getHealthData"
    /\ ~lastCall.closed
    /\ ~lastCall.failed
    /\ JsEq(lastCall.ret, JsNull)

-----------------------------------------------------------------------------
(* Texts in the store that are no JSON.  The server at REDIS_URL is shared: *)
(* setSession stores the bare token, and other clients of the server write  *)
(* what they write.                                                         *)

\* A text that JSON.parse rejects.
NotJson == JsStr(<<"{", "o", "o", "p", "s">>)

\* Another client of the server stores a text under a key.
ForeignWrite(Keys) ==
    /\ started
    /\ \E key \in Keys :
        LET st == RedisSetEx(store, now, key, DefaultExpire, NotJson).value
        IN  /\ Cardinality(DOMAIN st) <= MaxEntries
            /\ store' = st
            /\ puts' = PutsAfter(store, st,
                         [k \in {key} |-> [kind |-> "foreign", at |-> now, ttl |-> DefaultExpire]])
    /\ UNCHANGED <<redisUrl, started, client, isConnected, now, lastCall>>
    /\ UNCHANGED <<cipherVars, routeVars, callVars>>

\* mget(keys), the keys on record.
CallMgetKeys ==
    \E k \in DOMAIN CallKeyLists, oc \in Outcomes :
        LET r == mget(C, CallKeyLists[k], oc)
        IN  /\ Fits(r)
            /\ Finish("mget", <<CallKeyLists[k]>>, r, <<oc>>, NoPuts)

MalformedNext ==
    \/ Connect \/ OnReady \/ OnError
    \/ ForeignWrite({PerfKey, healthKey(<<"a", "1">>), OneKey})
    \/ CallSetSession(OneId)
    \/ CallGetKey({PerfKey, sessionKey(<<"a", "1">>)}) \/ CallMgetKeys
    \/ CallSetHealthData(OneId, OnePayload) \/ CallGetHealthData(OneId)
    \/ CallSetCaloricResult(OneBmi, OneDiseases, OneResult)
    \/ CallGetCaloricResult(OneBmi, OneDiseases)

SpecMalformed == ClientStart /\ [][MalformedNext]_vars

\* The text under a key is there and is not parseable.
Malformed(st, key) ==
    /\ key \in DOMAIN st
    /\ Truthy(st[key].text)
    /\ JSONparse(st[key].text).threw

\* The operation of a call parses a text that is not parseable.
ParsesMalformed(call, st) ==
    CASE call.op = "get" -> Malformed(st, call.args[1])
      [] call.op = "getHealthData" -> Malformed(st, healthKey(call.args[1]))
      [] call.op = "getCaloricResult" -> Malformed(st, calorieKey(call.args[1], call.args[2]))
      [] call.op = "setCaloricResult" -> Malformed(st, OneKey)
      [] call.op = "mget" ->
            /\ call.args[1].t = "arr"
            /\ \E i \in 1..Len(call.args[1].a) : Malformed(st, call.args[1].a[i].s)
      [] OTHER -> FALSE

\* A step of the cache client itself: no other client wrote, no event came.
ClientStep ==
    /\ \A k \in DOMAIN puts' :
          puts'[k].kind = "foreign" => (k \in DOMAIN puts /\ puts[k] = puts'[k])
    /\ UNCHANGED <<started, client, isConnected, now>>

\* C20: malformed stored payload.  An operation that parses a stored text
\* which is not parseable returns its empty value (null, the empty list,
\* false), lets no exception out and leaves the store as it is.
C20_MalformedIsEmpty ==
    [][ ( /\ ClientStep
          /\ ~lastCall'.closed
          /\ ~lastCall'.failed
          /\ ParsesMalformed(lastCall', store) )
        => /\ JsEq(lastCall'.ret, EmptyValue(lastCall'.op))
           /\ ~lastCall'.threw
           /\ store' = store ]_vars

\* C20 witness: setCaloricResult found a text another client had left under
\* its key, returned false and left the text there.
C20_Witness ==
    /\ lastCall.op = "setCaloricResult"
    /\ ~lastCall.closed
    /\ ~lastCall.failed
    /\ JsEq(lastCall.ret, JsBool(FALSE))
    /\ Malformed(store, OneKey)
    /\ OneKey \in DOMAIN puts
    /\ puts[OneKey].kind = "foreign"

-----------------------------------------------------------------------------
(* Key derivation and the salt it is given *)

\* The salt comparePassword cut from the stored string and gave to deriveKey.
SlicedSalt == SplitEnvelope(BufferFromBase64(cstored).value).salt

\* C21: key derivation rejects a malformed salt.  deriveKey(password, salt)
\* fails with InvalidSaltLength exactly when the salt is not saltLength bytes
\* long, as is the salt comparePassword slices from a short envelope.
C21_InvalidSaltLength ==
    (cphase \in {"compared", "comparedBad"} /\ cstored.isString) =>
        LET key == deriveKey(ccand, SlicedSalt)
        IN  IF Len(SlicedSalt) # saltLength
            THEN key = Throw("InvalidSaltLength")
            ELSE ~key.threw

-----------------------------------------------------------------------------
(* The connection flag: connect() and the three handlers that write         *)
(* isConnected, each leaving on record what happened last.                  *)

ConnectionEvents == {"none", "not configured", "connect failed", "ready", "error", "end"}

\* connect(), lines 79-129.
Connecting ==
    /\ ~started
    /\ started' = TRUE
    /\ IF ~redisUrl
       THEN /\ isConnected' = FALSE
            /\ UNCHANGED client
            /\ lastEvent' = "not configured"
       ELSE /\ client' = TRUE
            /\ \E oc \in Outcomes :
                /\ isConnected' = (oc = "ok")
                /\ lastEvent' = IF oc = "ok" THEN "ready" ELSE "connect failed"
    /\ UNCHANGED <<redisUrl, store, now, lastCall, puts, calls, probe>>
    /\ UNCHANGED <<cipherVars, routeVars>>

\* A handler that leaves the flag as it is.
Handled_ignored(event, flag) ==
    /\ client
    /\ UNCHANGED isConnected
    /\ lastEvent' = event
    /\ UNCHANGED <<redisUrl, started, client, store, now, lastCall, puts, calls, probe>>
    /\ UNCHANGED <<cipherVars, routeVars>>

\* client.on(event, () => { this.isConnected = flag })
Handled(event, flag) ==
    /\ client
    /\ isConnected' = flag
    /\ lastEvent' = event
    /\ UNCHANGED <<redisUrl, started, client, store, now, lastCall, puts, calls, probe>>
    /\ UNCHANGED <<cipherVars, routeVars>>

\* client.on('ready'), client.on('error'), client.on('end')
Ready == Handled("ready", TRUE)
Errored == Handled("error", FALSE)
Ended == Handled("end", FALSE)

LifecycleNext ==
    \/ Connecting \/ Ready \/ Errored \/ Ended \/ Tick
    \/ CallGet \/ CallSet \/ CallDel(CallKeys) \/ CallExists \/ CallMget \/ CallMset
    \/ CallFlushAll \/ CallGetStats
    \/ CallSetSession(OneId) \/ CallGetSession(OneId) \/ CallDeleteSession(OneId)
    \/ CallSetHealthData(OneId, OnePayload) \/ CallGetHealthData(OneId)
    \/ CallSetCaloricResult(OneBmi, OneDiseases, OneResult)
    \/ CallGetCaloricResult(OneBmi, OneDiseases)
    \/ CallGetCacheAnalytics

SpecLifecycle == ClientStart /\ [][LifecycleNext]_vars

\* C22: a disabled backend is permanently disconnected.  Without REDIS_URL
\* (or with REDIS_DISABLED) connect() creates no client, so no handler ever
\* runs, isConnected stays false and every operation returns its empty
\* value; with it, isConnected is true exactly when the last thing that
\* happened to the connection was 'ready'; and no operation writes the flag.
C22_DisabledStaysOff ==
    /\ [](~redisUrl =>
            /\ ~client
            /\ ~isConnected
            /\ lastEvent \in {"none", "not configured"}
            /\ lastCall.op # "none" =>
                  /\ lastCall.closed
                  /\ ~lastCall.threw
                  /\ lastCall.cmds = 0
                  /\ JsEq(lastCall.ret, EmptyValue(lastCall.op)))
    /\ [](isConnected <=> lastEvent = "ready")
    /\ [][lastEvent' = lastEvent => isConnected' = isConnected]_vars

\* C22 witness: with a URL configured the connection came up, broke and
\* closed, and a later operation was turned away at its guard.
C22_Witness ==
    /\ redisUrl
    /\ client
    /\ lastEvent = "end"
    /\ ~isConnected
    /\ lastCall.op = "setHealthData"
    /\ lastCall.closed
    /\ JsEq(lastCall.ret, JsBool(FALSE))

-----------------------------------------------------------------------------
(* The reconnect policy handed to redis.createClient *)

\* retry_strategy: (times) => Math.min(times * 50, 2000)
retry_strategy(times) == Min(times * 50, 2000)

\* The attempts to reconnect in a row that are followed.
MaxAttempts == 120

\* The client asks for the delay before its next attempt to reconnect:
\* attempt 1 after the connection was lost, one more each time it fails.
Retry ==
    /\ client
    /\ ~isConnected
    /\ LET times == IF probe.op = "retry_strategy" THEN probe.arg + 1 ELSE 1
       IN  /\ times <= MaxAttempts
           /\ probe' = [op |-> "retry_strategy", arg |-> times, ret |-> retry_strategy(times)]
    /\ UNCHANGED <<cipherVars, clientVars, routeVars, calls, lastEvent>>

\* The connection is back: the attempts are counted from 1 again.
Reconnected ==
    /\ client
    /\ probe.op = "retry_strategy"
    /\ isConnected' = TRUE
    /\ probe' = NoProbe
    /\ UNCHANGED <<redisUrl, started, client, store, now, lastCall, puts, calls, lastEvent>>
    /\ UNCHANGED <<cipherVars, routeVars>>

RetryNext == Connect \/ OnError \/ Retry \/ Reconnected

SpecRetry == ClientStart /\ [][RetryNext]_vars

\* The largest factor looked for between one delay and the next.
MaxFactor == 40

\* C23: capped exponential backoff.  Up to the attempt reached, every delay
\* is at most the cap of 2000 ms and at least the delay before it, and
\* there is one factor greater than 1 by which each delay is the one before
\* it multiplied, cut at the cap.
C23_ExponentialBackoff ==
    probe.op = "retry_strategy" =>
        /\ probe.ret = retry_strategy(probe.arg)
        /\ \A n \in 1..probe.arg : retry_strategy(n) <= 2000
        /\ \A n \in 2..probe.arg : retry_strategy(n) >= retry_strategy(n - 1)
        /\ \E k \in 2..MaxFactor : \A n \in 2..probe.arg :
              retry_strategy(n) = IF k * retry_strategy(n - 1) < 2000
                                  THEN k * retry_strategy(n - 1) ELSE 2000

-----------------------------------------------------------------------------
(* Two credentials made one after the other *)

\* hashPassword is called again while the first credential is kept.
HashAgain ==
    /\ cphase = "hashed"
    /\ probe.op = "none"
    /\ \E p \in Passwords, s \in Seeds, v \in Seeds :
        LET h == hashPassword(StrVal(p), s, v)
            salt == generateSalt(s)
        IN  /\ ~h.threw
            /\ probe' = [op |-> "hashPassword",
                         arg |-> [password |-> StrVal(p), saltSeed |-> s, ivSeed |-> v],
                         ret |-> [envelope |-> h.value, salt |-> salt,
                                  key |-> deriveKey(StrVal(p), salt)]]
    /\ UNCHANGED <<cipherVars, clientVars, routeVars, calls, lastEvent>>

\* Both credentials are dropped.
Forget ==
    /\ probe.op = "hashPassword"
    /\ cphase' = "idle"
    /\ cpw' = StrVal(<<>>)
    /\ csalt' = <<>>
    /\ civ' = <<>>
    /\ cct' = <<>>
    /\ cstored' = Undefined
    /\ probe' = NoProbe
    /\ UNCHANGED <<ccand, cres>>
    /\ UNCHANGED <<clientVars, routeVars, calls, lastEvent>>

FreshNext == CHash \/ HashAgain \/ Forget

SpecFresh == CipherStart /\ [][FreshNext]_vars

\* The second call drew what the first call had not drawn.
DrewAnew ==
    /\ probe.arg.saltSeed # SeedOf(saltLength, csalt)
    /\ probe.arg.ivSeed # SeedOf(ivLength, civ)

\* C24: envelope freshness.  A second hashPassword whose salt and IV are
\* drawn anew returns an envelope other than the first, also for the same
\* plaintext; and deriveKey gives the key of the first call again when it is
\* given its password and its salt again.
C24_FreshEnvelope ==
    probe.op = "hashPassword" =>
        /\ DrewAnew => probe.ret.envelope # cstored
        /\ (probe.arg.password = cpw /\ probe.ret.salt = csalt)
              => probe.ret.key = deriveKey(cpw, csalt)
        /\ probe.ret.key = deriveKey(probe.arg.password, generateSalt(probe.arg.saltSeed))

\* C24 witness: the same plaintext hashed twice, salt and IV drawn anew,
\* and the two envelopes differ.
C24_Witness ==
    /\ probe.op = "hashPassword"
    /\ probe.arg.password = cpw
    /\ Len(cpw.s) > 0
    /\ DrewAnew
    /\ probe.ret.envelope # cstored

-----------------------------------------------------------------------------
(* The invalidation step of one response: invalidateAfterResponse up to     *)
(* its call of the original method, run with each DEL's outcome given.     *)

\* invalidateCache(['meals', 'daily', 'weekly'])
MealPatterns == << <<"m", "e", "a", "l", "s">>, <<"d", "a", "i", "l", "y">>, <<"w", "e", "e", "k", "l", "y">> >>

\* How one redisClient.del of the step goes: the command succeeds, the
\* command fails, or the flag is down when del is called.
DelOutcomes == {"ok", "fail", "closed"}

\* The known keys a pattern selects, in the order of the loop.
Selected(pattern, userId) ==
    SelectSeq(keysToDelete(userId), LAMBDA key : KeyMatches(key, pattern, userId))

\* The position of a known key in keysToDelete.
KeyIndex(key, userId) ==
    CHOOSE i \in 1..Len(keysToDelete(userId)) : keysToDelete(userId)[i] = key

\* The loop, left at the first del that did not return true.
RECURSIVE forEachKey_stopAtFailure(_, _, _, _, _)
forEachKey_stopAtFailure(c, keys, userId, ocs, attempted) ==
    IF keys = <<>> THEN [store |-> c.store, attempted |-> attempted]
    ELSE LET oc == ocs[KeyIndex(Head(keys), userId)]
             r == del([c EXCEPT !.isConnected = (oc # "closed")], Head(keys), oc)
         IN  IF r.threw \/ ~JsEq(r.ret, JsBool(TRUE))
             THEN [store |-> r.store, attempted |-> Append(attempted, Head(keys))]
             ELSE forEachKey_stopAtFailure([c EXCEPT !.store = r.store], Tail(keys), userId, ocs,
                                           Append(attempted, Head(keys)))

\* try { for (const key of keysToDelete) { if (key.includes(...)) await
\* redisClient.del(key) } } catch (error) { ... }: an exception of one del
\* ends the loop, its value is not looked at.
RECURSIVE forEachKey(_, _, _, _, _)
forEachKey(c, keys, userId, ocs, attempted) ==
    IF keys = <<>> THEN [store |-> c.store, attempted |-> attempted]
    ELSE LET oc == ocs[KeyIndex(Head(keys), userId)]
             r == del([c EXCEPT !.isConnected = (oc # "closed")], Head(keys), oc)
         IN  IF r.threw
             THEN [store |-> r.store, attempted |-> Append(attempted, Head(keys))]
             ELSE forEachKey([c EXCEPT !.store = r.store], Tail(keys), userId, ocs,
                             Append(attempted, Head(keys)))

\* patterns.forEach(async (pattern) => { ... }) behind the test of the
\* status: per pattern, the keys del was called with, and the store after.
RECURSIVE forEachPattern(_, _, _, _, _)
forEachPattern(c, patterns, userId, ocs, attempted) ==
    IF patterns = <<>> THEN [store |-> c.store, attempted |-> attempted]
    ELSE LET r == forEachKey(c, Selected(Head(patterns), userId), userId, ocs, <<>>)
         IN  forEachPattern([c EXCEPT !.store = r.store], Tail(patterns), userId, ocs,
                            Append(attempted, r.attempted))

invalidateAfterResponse(c, w, status, ocs) ==
    IF Invalidates(w, status)
    THEN forEachPattern(c, w.patterns, w.userId, ocs, <<>>)
    ELSE [store |-> c.store, attempted |-> <<>>]

\* The statuses the guarded handlers answer with.
Statuses == {200, 201, 400, 500}

\* The outcomes of the DELs of a step: one for each known key a pattern
\* selects.
StepOutcomes(patterns, userId) ==
    LET known == keysToDelete(userId)
        selected == { i \in 1..Len(known) :
                        \E p \in 1..Len(patterns) : KeyMatches(known[i], patterns[p], userId) }
    IN  { [i \in 1..Len(known) |-> IF i \in selected THEN f[i] ELSE "ok"] :
            f \in [selected -> DelOutcomes] }

\* One response of a guarded route, the wrapper installed while the flag was
\* up: the invalidation step and the call of the original method.
InvalidationStep ==
    /\ isConnected
    /\ client
    /\ probe.op = "none"
    /\ \E userId \in OneId, patterns \in {PutPatterns, MealPatterns}, status \in Statuses :
       \E ocs \in StepOutcomes(patterns, userId) :
        LET w == [kind |-> "invalidate", key |-> <<>>, ttl |-> 0,
                  patterns |-> patterns, userId |-> userId]
            r == invalidateAfterResponse(C, w, status, ocs)
            sent == Reply(C, w, status, CallData[1], db, FALSE, "ok",
                          { keysToDelete(userId)[i] : i \in { j \in DOMAIN ocs : ocs[j] = "ok" } })
        IN  /\ store' = r.store
            /\ puts' = PutsAfter(store, r.store, NoPuts)
            /\ probe' = [op |-> "invalidateAfterResponse",
                         arg |-> [wrapper |-> w, status |-> status, ocs |-> ocs, store |-> store],
                         ret |-> [attempted |-> r.attempted,
                                  response |-> [status |-> sent.status, body |-> sent.body,
                                                crashed |-> sent.crashed]]]
    /\ UNCHANGED <<redisUrl, started, client, isConnected, now, lastCall>>
    /\ UNCHANGED <<cipherVars, routeVars, calls, lastEvent>>

\* The next response.
StepOver ==
    /\ probe.op = "invalidateAfterResponse"
    /\ probe' = NoProbe
    /\ UNCHANGED <<cipherVars, clientVars, routeVars, calls, lastEvent>>

InvalidateNext ==
    \/ Connect \/ OnReady \/ OnError
    \/ (probe.op = "none" /\ CallSetKey({ keysToDelete(<<"a", "1">>)[i] : i \in {1, 4, 5} }))
    \/ InvalidationStep \/ StepOver

SpecInvalidate == ClientStart /\ [][InvalidateNext]_vars

-----------------------------------------------------------------------------
(* Reads after a mutation *)

\* C26: no stale read after a mutation.  When PUT /metrics, guarded by
\* invalidateCache(['health', 'summary']), has written the user and its
\* invalidation has run on the 2xx status, the key under which GET /metrics
\* stored its response for that user, cache:health:<id>:metrics, is gone.
C26_NoStaleRead ==
    [][ ( /\ req.route = "PUT /metrics"
          /\ req.wrapper = "invalidate"
          /\ req' = NoReq
          /\ resp'.invalidated
          /\ db' # db )
        => healthCacheKey(<<"m", "e", "t", "r", "i", "c", "s">>, req.user) \notin DOMAIN store' ]_vars

-----------------------------------------------------------------------------
(* GET /daily/:date? of the meal routes behind cache(1800,                  *)
(* mealCacheKey('daily')).  The user has no meal on record.                 *)

\* date.toISOString().split('T')[0]: the day of an instant, "1970-01-dd".
isoDate(at) ==
    LET dd == at \div 86400 + 1
    IN  <<"1", "9", "7", "0", "-", "0", "1", "-">> \o (IF dd < 10 THEN <<"0">> ELSE <<>>) \o NatToString(dd)

\* The days a request names.
MaxDay == 8

\* new Date(text): the instant of a day written as isoDate writes it, else
\* Invalid Date.
NewDate(text) ==
    IF \E day \in 0..MaxDay : isoDate(day * 86400) = text
    THEN [valid |-> TRUE, at |-> 86400 * (CHOOSE day \in 0..MaxDay : isoDate(day * 86400) = text)]
    ELSE [valid |-> FALSE, at |-> 0]

\* mealCacheKey(timeframe): `cache:meals:${userId}:${timeframe}:${date}` with
\* date = req.query.date || new Date().toISOString().split('T')[0]
mealCacheKey(timeframe, userId, query, params, at) ==
    LET date == IF Truthy(query) THEN query.s ELSE isoDate(at)
    IN  <<"c", "a", "c", "h", "e", ":", "m", "e", "a", "l", "s", ":">> \o userId \o <<":">> \o timeframe \o <<":">> \o date

\* cache(1800, mealCacheKey('daily'))
DailyCacheTtl == 1800

\* user.getDailyCalories(date) of a user with no meal on record.
getDailyCalories ==
    [totalCalories |-> JsNum(0),
     mealBreakdown |-> JsObj([breakfast |-> JsNum(0), lunch |-> JsNum(0),
                              dinner |-> JsNum(0), snack |-> JsNum(0)]),
     mealCount |-> JsNum(0),
     meals |-> JsArr(<<>>)]

\* GET /daily/:date?, the handler.  date.toISOString() of an Invalid Date
\* throws RangeError, which the catch block answers with 500.
getDaily(c, kind, cacheKey, d, userId, params, oc) ==
    LET w == [kind |-> kind, key |-> cacheKey, ttl |-> DailyCacheTtl,
              patterns |-> <<>>, userId |-> userId]
        date == IF Truthy(params) THEN NewDate(params.s) ELSE [valid |-> TRUE, at |-> c.now]
    IN  IF ~d[userId].registered
        THEN Reply(c, w, 404, Message(<<"U", "s", "e", "r", " ", "n", "o", "t", " ", "f", "o", "u", "n", "d">>), d, FALSE, oc, {})
        ELSE IF ~date.valid
        THEN Reply(c, w, 500, Message(<<"S", "e", "r", "v", "e", "r", " ", "e", "r", "r", "o", "r">>), d, FALSE, oc, {})
        ELSE Reply(c, w, 200,
                   JsObj(Merge([date |-> JsStr(isoDate(date.at))], getDailyCalories)),
                   d, FALSE, oc, {})

\* req.params.date and req.query.date of the requests.
DateParams == <<JsUndefined, JsStr(<<"1", "9", "7", "0", "-", "0", "1", "-", "0", "1">>), JsStr(<<"1", "9", "7", "0", "-", "0", "1", "-", "0", "2">>), JsStr(<<"s", "o", "m", "e", "d", "a", "y">>)>>
DateQueries == <<JsUndefined, JsStr(<<"1", "9", "7", "0", "-", "0", "1", "-", "0", "2">>)>>

\* GET /daily/:date? up to the handler.
GetDailyEnter(Ids) ==
    /\ alive
    /\ req = NoReq
    /\ \E userId \in Ids, p \in DOMAIN DateParams, q \in DOMAIN DateQueries, oc \in Outcomes :
        /\ db[userId].registered
        /\ LET cacheKey == mealCacheKey(<<"d", "a", "i", "l", "y">>, userId, DateQueries[q], DateParams[p], now)
               m == cache(C, cacheKey, oc)
               miss == cacheKey \notin DOMAIN store
           IN  IF m.hit
               THEN /\ Served(Reply(C, NoWrapper, 200, m.data, db, FALSE, "ok", {}),
                              getDaily(Off(C), "none", cacheKey, db, userId, DateParams[p], "ok"),
                              isConnected, miss)
                    /\ UNCHANGED hist
               ELSE Passed("GET /daily", userId, m.wrapper,
                           JsObj([params |-> DateParams[p], cacheKey |-> JsStr(cacheKey)]), miss)

GetDailyHandle ==
    /\ alive
    /\ req.route = "GET /daily"
    /\ \E oc \in Outcomes :
        /\ Served(getDaily(C, req.wrapper, req.body.o.cacheKey.s, db, req.user,
                           req.body.o.params, oc),
                  getDaily(Off(C), "none", req.body.o.cacheKey.s, db, req.user,
                           req.body.o.params, "ok"),
                  req.flagAtEntry, req.miss)
        /\ UNCHANGED hist

MealsNext ==
    \/ Connect \/ OnReady \/ OnError \/ LongTick
    \/ GetDailyEnter(OneId) \/ GetDailyHandle

SpecMeals == MetricsStart /\ [][MealsNext]_vars

\* The bodies the handler sends with a status that is not 2xx.
ErrorBodies == {Message(<<"U", "s", "e", "r", " ", "n", "o", "t", " ", "f", "o", "u", "n", "d">>), Message(<<"S", "e", "r", "v", "e", "r", " ", "e", "r", "r", "o", "r">>)}

\* The keys of mealCacheKey('daily') of a user.
DailyKeys(userId) ==
    { <<"c", "a", "c", "h", "e", ":", "m", "e", "a", "l", "s", ":">> \o userId \o <<":", "d", "a", "i", "l", "y", ":">> \o isoDate(day * 86400) : day \in 0..MaxDay }

\* C27: the request cache stores only successful results.  No entry under a
\* key of the meal cache holds the body of a response whose status was not
\* 2xx, so none is replayed with status 200 on a hit.
C27_OnlySuccessStored ==
    \A u \in UserIds : \A k \in DailyKeys(u) \cap DOMAIN store :
        TextValue(store[k].text) \notin ErrorBodies

\* C28: the meal cache key distinguishes the requested date.  The response
\* stored under the key of a day is the response for that day.
C28_KeyNamesDate ==
    \A u \in UserIds : \A day \in 0..MaxDay :
        LET k == <<"c", "a", "c", "h", "e", ":", "m", "e", "a", "l", "s", ":">> \o u \o <<":", "d", "a", "i", "l", "y", ":">> \o isoDate(day * 86400)
        IN  (k \in DOMAIN store /\ Prop(TextValue(store[k].text), "date").t = "str")
                => Prop(TextValue(store[k].text), "date").s = isoDate(day * 86400)

-----------------------------------------------------------------------------
(* One call of res.json under the wrapper of invalidateCache *)

\* The runs of invalidateAfterResponse one call of the wrapped res.json
\* makes: one for the call itself and one each time the original json
\* reaches the wrapped send.
RECURSIVE invalidationSteps(_, _)
invalidationSteps(wrapper, depth) ==
    IF wrapper # "invalidate" \/ depth > StackDepth THEN 0
    ELSE 1 + invalidationSteps(wrapper, depth + 2)

\* C29: the invalidation wrapper sends once.  The res.json of a PUT /metrics
\* that passed invalidateCache with the flag up runs the invalidation step
\* once, reaches the original method and returns: the client has its answer.
C29_SendsOnce ==
    [][ ( /\ req.route = "PUT /metrics"
          /\ req.wrapper = "invalidate"
          /\ req' = NoReq )
        => /\ invalidationSteps(req.wrapper, 0) = 1
           /\ resJson(req.wrapper, 0) = "sent"
           /\ ~resp'.crashed ]_vars

-----------------------------------------------------------------------------
(* GET /verify, and what the session store has to do with a token *)

\* GET /verify that accepts a token only while it is the session on record.
verify_checksSession(c, d, token) ==
    IF ~Truthy(token)
    THEN Reply(c, NoWrapper, 401, Message(<<"N", "o", " ", "t", "o", "k", "e", "n", " ", "p", "r", "o", "v", "i", "d", "e", "d">>), d, FALSE, "ok", {})
    ELSE IF ~Verifies(token, c.now) \/ ~d[token.s].registered
            \/ ~JsEq(getSession(c, token.s, "ok").ret, token)
    THEN Reply(c, NoWrapper, 401, Message(<<"I", "n", "v", "a", "l", "i", "d", " ", "t", "o", "k", "e", "n">>), d, FALSE, "ok", {})
    ELSE Reply(c, NoWrapper, 200, JsObj([id |-> JsStr(token.s)]), d, FALSE, "ok", {})

\* GET /verify: 401 without a token, with a token jwt.verify rejects, or
\* with the token of a user that is gone; else the user.
verify(c, d, token) ==
    IF ~Truthy(token)
    THEN Reply(c, NoWrapper, 401, Message(<<"N", "o", " ", "t", "o", "k", "e", "n", " ", "p", "r", "o", "v", "i", "d", "e", "d">>), d, FALSE, "ok", {})
    ELSE IF ~Verifies(token, c.now) \/ ~d[token.s].registered
    THEN Reply(c, NoWrapper, 401, Message(<<"I", "n", "v", "a", "l", "i", "d", " ", "t", "o", "k", "e", "n">>), d, FALSE, "ok", {})
    ELSE Reply(c, NoWrapper, 200, JsObj([id |-> JsStr(token.s)]), d, FALSE, "ok", {})

\* The token a client sends for a user: one of Tokens, or the token the last
\* login or registration handed out.
TokenSent(userId, t) == IF t = 0 THEN hist[userId].token ELSE Tokens[t]

Verify(Ids) ==
    /\ alive
    /\ req = NoReq
    /\ \E userId \in Ids, t \in 0..Len(Tokens) :
        /\ t = 0 => hist[userId].some
        /\ LET r == verify(C, db, TokenSent(userId, t))
           IN  /\ resp' = [ok |-> (r.status >= 200 /\ r.status < 300),
                           crashed |-> r.crashed, invalidated |-> r.invalidated,
                           covered |-> isConnected, same |-> TRUE]
               /\ probe' = [op |-> "GET /verify", arg |-> [token |-> TokenSent(userId, t), at |-> now],
                            ret |-> [status |-> r.status, body |-> r.body]]
    /\ UNCHANGED <<alive, db, req, hist, calls, lastEvent>>
    /\ UNCHANGED <<cipherVars, clientVars>>

VerifyNext ==
    \/ Connect \/ OnReady \/ OnError \/ LongTick
    \/ Register(OneId) \/ Login(OneId) \/ Logout(OneId) \/ Verify(OneId)

SpecVerify == ClientStart /\ [][VerifyNext]_vars

\* The store with the session entry of a user absent (never written,
\* deleted by logout, expired), holding the token of a login made now, or
\* holding another text.
SessionVariants(userId) ==
    { DelAll(store, {sessionKey(userId)}),
      RedisSetEx(store, now, sessionKey(userId), SessionTtl, Jwt(userId, now)).value,
      RedisSetEx(store, now, sessionKey(userId), SessionTtl, JsStr(<<"x">>)).value }

\* Status and body of an answer.
Outcome(r) == [status |-> r.status, body |-> r.body]

\* C30: token acceptance does not depend on the session store.  Whatever
\* the session entry of the user is, GET /verify and POST /logout answer
\* the same token with the same status and body, and the GET /verify that was
\* served answered as it would have over any of these stores.
C30_StoreBlind ==
    /\ \A u \in OneId : \A t \in 0..Len(Tokens) : \A alt \in SessionVariants(u) :
          /\ Outcome(verify([C EXCEPT !.store = alt], db, TokenSent(u, t)))
                = Outcome(verify(C, db, TokenSent(u, t)))
          /\ Outcome(logout([C EXCEPT !.store = alt], db, TokenSent(u, t), "ok", "ok", "ok", "ok"))
                = Outcome(logout(C, db, TokenSent(u, t), "ok", "ok", "ok", "ok"))
    /\ probe.op = "GET /verify" =>
          \A alt \in UNION { SessionVariants(u) : u \in OneId } :
              probe.ret = Outcome(verify([C EXCEPT !.store = alt, !.now = probe.arg.at], db,
                                         probe.arg.token))

\* C30 witness: the user logged out, the session entry was deleted, and
\* GET /verify accepted the token of the login all the same.
C30_Witness ==
    /\ probe.op = "GET /verify"
    /\ probe.ret.status = 200
    /\ \E u \in OneId :
        /\ probe.arg.token = hist[u].token
        /\ hist[u].wrote
        /\ hist[u].out
        /\ hist[u].deleted
        /\ sessionKey(u) \notin DOMAIN store
====
